---- MODULE Spec2Model ----
(***************************************************************************)
(* A model of axiom/core.py: semantic coordinates, nodes, forks, the hash-  *)
(* linked audit log, the Space that owns them, and the deterministic        *)
(* wrapper on top of the Space.                                             *)
(*                                                                          *)
(* Python strings that carry data (codes, labels) are sequences of ASCII    *)
(* codes, so that formatting, lower(), strip() and concatenation are        *)
(* computed.  Fixed tags (action names, relation kind names, strategy       *)
(* names) are TLA+ strings.  None is the empty sequence <<>> and a present  *)
(* optional value v is <<v>>.  Python objects with identity (Node, Fork)    *)
(* live in heaps and are referred to by their index.                        *)
(***************************************************************************)
EXTENDS Integers, Sequences, FiniteSets, TLC

VARIABLES
    heap,       \* Node objects, by identity: caller-built ones and those the Space builds
    nodes,      \* Space._nodes: insertion-ordered dict, code -> Node object
    fheap,      \* Fork objects, by identity
    forks,      \* Space._forks: insertion-ordered dict, source code -> Fork object
    audit,      \* AuditLog._entries
    decisions,  \* DeterministicWrapper._decisions
    clock,      \* what time.time() returns next
    ret,        \* the outcome of the last call: what it returned or raised
    budget,     \* calls are offered while the chain is shorter than this
    twin,       \* a second Space, of its own nodes, forks, chain and clock
    threads     \* the callers that run at the same time: where each is in its call

vars == <<heap, nodes, fheap, forks, audit, decisions, clock, ret, budget, twin, threads>>

(***************************************************************************)
(* Bounds of the model.                                                     *)
(***************************************************************************)
MaxAudit == 2       \* the budget of Spec, where every Space and wrapper call is offered
MaxStoreAudit == 3  \* the budget of SpecStore: the store, the forks and the tension
MaxForkAudit == 2   \* the budget of SpecFork: the methods of the Fork objects
MaxTamperAudit == 3 \* the budget of SpecTamper: the length of the chain that is tampered with
MaxPathAudit == 2   \* SpecPath: the entries that may follow those of the seed
MaxProposeAudit == 3 \* the budget of SpecPropose: the stores a strategy is proposed on
MaxWrapAudit == 4   \* the budget of SpecWrapper: handle calls on a Space that is also added to
MaxLastAudit == 3   \* the budget of SpecLast: the length of the chain whose end is asked for
MaxReforkAudit == 1 \* SpecRefork: the entries that may follow those of the first fork
MaxGraphEdges == 3  \* SpecGraph: the relations the nodes hold when a path is asked for
MaxThreadCalls == 1 \* SpecThreads: the calls each of the two callers makes
MaxTwinAudit == 1   \* SpecTwin: the entries that may follow those of the nodes added

(***************************************************************************)
(* Program constants.                                                       *)
(***************************************************************************)
MaxMajor == 8
MaxType == 99
MaxSubtype == 99
MaxInstance == 9999
HashHexWidth == 64
TruncateLen == 100

(***************************************************************************)
(* Strings.                                                                 *)
(***************************************************************************)
Min2(a, b) == IF a < b THEN a ELSE b

RECURSIVE Digits(_)
\* the decimal digits of n >= 0, as characters
Digits(n) == IF n < 10 THEN <<48 + n>> ELSE Append(Digits(n \div 10), 48 + (n % 10))

RECURSIVE ZeroPad(_, _)
\* the format spec 0<w>d: pads with zeros on the left up to width w, never cuts
ZeroPad(s, w) == IF Len(s) >= w THEN s ELSE ZeroPad(<<48>> \o s, w)

HYPHEN == <<45>>
COLON == <<58>>

\* str.lower() on ASCII
LowerChar(c) == IF c >= 65 /\ c <= 90 THEN c + 32 ELSE c
Lower(s) == [i \in 1..Len(s) |-> LowerChar(s[i])]

IsSpace(c) == c \in {32, 9, 10, 11, 12, 13}

RECURSIVE LStrip(_)
LStrip(s) == IF Len(s) > 0 /\ IsSpace(s[1]) THEN LStrip(Tail(s)) ELSE s

RECURSIVE RStrip(_)
RStrip(s) == IF Len(s) > 0 /\ IsSpace(s[Len(s)]) THEN RStrip(SubSeq(s, 1, Len(s) - 1)) ELSE s

\* str.strip()
Strip(s) == RStrip(LStrip(s))

\* s[:n]
Truncate(s, n) == SubSeq(s, 1, Min2(Len(s), n))

(***************************************************************************)
(* SemanticID                                                               *)
(***************************************************************************)
\* __post_init__: the four range checks
SemanticID_valid(major, type_, subtype, instance) ==
    /\ 1 <= major /\ major <= MaxMajor
    /\ 1 <= type_ /\ type_ <= MaxType
    /\ 1 <= subtype /\ subtype <= MaxSubtype
    /\ 1 <= instance /\ instance <= MaxInstance

MkID(major, type_, subtype, instance) ==
    [major |-> major, type_ |-> type_, subtype |-> subtype, instance |-> instance]

\* SemanticID.code
SemanticID_code(id) ==
    ZeroPad(Digits(id.major), 2) \o HYPHEN \o ZeroPad(Digits(id.type_), 2) \o HYPHEN
        \o ZeroPad(Digits(id.subtype), 2) \o HYPHEN \o ZeroPad(Digits(id.instance), 4)

\* \d of the pattern, and the value int() gives the digit: the ASCII digits,
\* and the Arabic-Indic ones for the decimal digits outside ASCII
IsDigit(c) == (c >= 48 /\ c <= 57) \/ (c >= 1632 /\ c <= 1641)

DigitValue(c) == IF c <= 57 THEN c - 48 ELSE c - 1632

RECURSIVE ParseInt(_)
\* int(s) of a string of digits
ParseInt(s) ==
    IF Len(s) = 0 THEN 0
    ELSE 10 * ParseInt(SubSeq(s, 1, Len(s) - 1)) + DigitValue(s[Len(s)])

\* _PATTERN.match(code): ^(\d{2})-(\d{2})-(\d{2})-(\d{4})$, where $ also
\* matches before a newline that ends the string
PatternMatches(code) ==
    LET n == IF Len(code) = 14 /\ code[14] = 10 THEN 13 ELSE Len(code)
    IN  /\ n = 13
        /\ \A i \in {3, 6, 9} : code[i] = 45
        /\ \A i \in (1..13) \ {3, 6, 9} : IsDigit(code[i])

\* a faulty parse: the instance is read without its last digit
SemanticID_parse_short_instance(code) ==
    IF ~PatternMatches(code) THEN [err |-> "FormatError", res |-> <<>>]
    ELSE [err |-> "ok",
          res |-> MkID(ParseInt(SubSeq(code, 1, 2)), ParseInt(SubSeq(code, 4, 5)),
                       ParseInt(SubSeq(code, 7, 8)), ParseInt(SubSeq(code, 10, 12)))]

\* SemanticID.parse(code): the coordinate, or SemanticIDError for a string that
\* does not match (FormatError) or for a field out of range (RangeError)
SemanticID_parse(code) ==
    IF ~PatternMatches(code) THEN [err |-> "FormatError", res |-> <<>>]
    ELSE LET major == ParseInt(SubSeq(code, 1, 2))
             type_ == ParseInt(SubSeq(code, 4, 5))
             subtype == ParseInt(SubSeq(code, 7, 8))
             instance == ParseInt(SubSeq(code, 10, 13))
         IN  IF ~SemanticID_valid(major, type_, subtype, instance)
             THEN [err |-> "RangeError", res |-> <<>>]
             ELSE [err |-> "ok", res |-> MkID(major, type_, subtype, instance)]

\* SemanticID.__eq__: equality of the codes
SemanticID_eq(a, b) == SemanticID_code(a) = SemanticID_code(b)

shares_category(a, b) == a.major = b.major

\* a faulty shares_type: the major category is not compared
shares_type_no_major(a, b) == a.type_ = b.type_

shares_type(a, b) == a.major = b.major /\ a.type_ = b.type_

shares_subtype(a, b) == a.major = b.major /\ a.type_ = b.type_ /\ a.subtype = b.subtype

(***************************************************************************)
(* Insertion-ordered dicts: sequences of [k, v], one entry per key.         *)
(***************************************************************************)
DictHas(d, key) == \E i \in 1..Len(d) : d[i].k = key

DictIndex(d, key) == CHOOSE i \in 1..Len(d) : d[i].k = key

DictGet(d, key) == d[DictIndex(d, key)].v

\* d[key] = value: a new key goes last, a present key keeps its place
DictSet(d, key, value) ==
    IF DictHas(d, key)
    THEN [d EXCEPT ![DictIndex(d, key)] = [k |-> key, v |-> value]]
    ELSE Append(d, [k |-> key, v |-> value])

DictKeys(d) == {d[i].k : i \in 1..Len(d)}

DictValues(d) == [i \in 1..Len(d) |-> d[i].v]

\* d.get(key, default) of an optional entry: None is <<>>, a present value v is <<v>>
CtxGet(opt, default) == IF opt = <<>> THEN default ELSE opt[1]

InSeq(x, s) == \E i \in 1..Len(s) : s[i] = x

RECURSIVE SumLens(_)
SumLens(d) == IF Len(d) = 0 THEN 0 ELSE Len(d[1].v) + SumLens(Tail(d))

RECURSIVE MaxOf(_, _)
\* max(values, default)
MaxOf(s, default) ==
    IF Len(s) = 0 THEN default
    ELSE LET m == MaxOf(Tail(s), default)
         IN  IF Len(s) = 1 THEN s[1] ELSE IF s[1] > m THEN s[1] ELSE m

(***************************************************************************)
(* RelationType members are the tags "IS_A", ...; the name of a member is a *)
(* Python string.                                                           *)
(***************************************************************************)
RelationNames ==
    << [kind |-> "IS_A", name |-> <<73, 83, 95, 65>>],
       [kind |-> "PART_OF", name |-> <<80, 65, 82, 84, 95, 79, 70>>],
       [kind |-> "HAS_PROPERTY", name |-> <<72, 65, 83, 95, 80, 82, 79, 80, 69, 82, 84, 89>>],
       [kind |-> "CAUSES", name |-> <<67, 65, 85, 83, 69, 83>>],
       [kind |-> "LOCATED_IN", name |-> <<76, 79, 67, 65, 84, 69, 68, 95, 73, 78>>],
       [kind |-> "OCCURS_AT", name |-> <<79, 67, 67, 85, 82, 83, 95, 65, 84>>],
       [kind |-> "SIMILAR_TO", name |-> <<83, 73, 77, 73, 76, 65, 82, 95, 84, 79>>],
       [kind |-> "CONTRADICTS", name |-> <<67, 79, 78, 84, 82, 65, 68, 73, 67, 84, 83>>],
       [kind |-> "FORKED_FROM", name |-> <<70, 79, 82, 75, 69, 68, 95, 70, 82, 79, 77>>],
       [kind |-> "DERIVED_FROM", name |-> <<68, 69, 82, 73, 86, 69, 68, 95, 70, 82, 79, 77>>] >>

\* rel_type.name
RelationType_name(kind) ==
    RelationNames[CHOOSE i \in 1..Len(RelationNames) : RelationNames[i].kind = kind].name

\* name is the name of a member: RelationType[name] does not raise KeyError
IsRelationName(name) == \E i \in 1..Len(RelationNames) : RelationNames[i].name = name

\* RelationType[name], for the name of a member
RelationType_byName(name) ==
    RelationNames[CHOOSE i \in 1..Len(RelationNames) : RelationNames[i].name = name].kind

(***************************************************************************)
(* Node                                                                     *)
(***************************************************************************)
\* Node(id, label, metadata, relations={})
MkNode(id, label, metadata) ==
    [id |-> id, label |-> label, metadata |-> metadata, relations |-> <<>>]

\* Node.add_relation(rel_type, target), on the value of the node
Node_add_relation(node, rel_type, target) ==
    LET rels == IF DictHas(node.relations, rel_type) THEN node.relations
                ELSE DictSet(node.relations, rel_type, <<>>)
        target_code == SemanticID_code(target.id)
        targets == DictGet(rels, rel_type)
    IN  IF InSeq(target_code, targets) THEN [node EXCEPT !.relations = rels]
        ELSE [node EXCEPT !.relations = DictSet(rels, rel_type, Append(targets, target_code))]

\* Node.get_relations(rel_type)
Node_get_relations(node, rel_type) ==
    IF DictHas(node.relations, rel_type) THEN DictGet(node.relations, rel_type) ELSE <<>>

\* Node.relation_count()
Node_relation_count(node) == SumLens(node.relations)

\* Node.to_dict(): a dict with the four keys
Node_to_dict(node) ==
    [id |-> SemanticID_code(node.id),
     label |-> node.label,
     metadata |-> <<node.metadata>>,
     relations |-> << [i \in 1..Len(node.relations) |->
                         [k |-> RelationType_name(node.relations[i].k),
                          v |-> node.relations[i].v]] >>]

\* a faulty from_dict: a relations key that names no kind is dropped
Node_from_dict_lenient(data) ==
    LET given == CtxGet(data.relations, <<>>)
        known == SelectSeq(given, LAMBDA r : IsRelationName(r.k))
        parsed == SemanticID_parse(data.id)
    IN  IF parsed.err # "ok" THEN [err |-> parsed.err, res |-> <<>>]
        ELSE [err |-> "ok",
              res |-> [id |-> parsed.res, label |-> data.label,
                       metadata |-> CtxGet(data.metadata, <<>>),
                       relations |-> [i \in 1..Len(known) |->
                                         [k |-> RelationType_byName(known[i].k),
                                          v |-> known[i].v]]]]

\* Node.from_dict(data): data has "id" and "label", and may have "metadata"
\* and "relations"; the relations are converted before the id is parsed
Node_from_dict(data) ==
    LET given == CtxGet(data.relations, <<>>)
        parsed == SemanticID_parse(data.id)
    IN  IF \E i \in 1..Len(given) : ~IsRelationName(given[i].k)
        THEN [err |-> "KeyError", res |-> <<>>]
        ELSE IF parsed.err # "ok" THEN [err |-> parsed.err, res |-> <<>>]
        ELSE [err |-> "ok",
              res |-> [id |-> parsed.res, label |-> data.label,
                       metadata |-> CtxGet(data.metadata, <<>>),
                       relations |-> [i \in 1..Len(given) |->
                                         [k |-> RelationType_byName(given[i].k),
                                          v |-> given[i].v]]]]

(***************************************************************************)
(* Fork                                                                     *)
(***************************************************************************)
\* Fork(source_id, branches): created_at is the time, resolved_to is None
MkFork(source_id, branches, now) ==
    [source_id |-> source_id, branches |-> branches, created_at |-> now,
     resolved_to |-> <<>>, metadata |-> <<>>]

\* chosen in self.branches, by SemanticID.__eq__
InBranches(chosen, branches) == \E i \in 1..Len(branches) : SemanticID_eq(branches[i], chosen)

Fork_is_resolved(fork) == fork.resolved_to # <<>>

Fork_branch_count(fork) == Len(fork.branches)

\* a faulty resolve: the membership of chosen is not checked
Fork_resolve_unchecked(fork, chosen) ==
    [err |-> "ok", fork |-> [fork EXCEPT !.resolved_to = <<chosen>>]]

\* Fork.resolve(chosen): [err, fork]
Fork_resolve(fork, chosen) ==
    IF ~InBranches(chosen, fork.branches)
    THEN [err |-> "NotABranch", fork |-> fork]
    ELSE [err |-> "ok", fork |-> [fork EXCEPT !.resolved_to = <<chosen>>]]

\* Fork.add_branch(branch_id)
Fork_add_branch(fork, branch_id) ==
    IF ~InBranches(branch_id, fork.branches)
    THEN [fork EXCEPT !.branches = Append(@, branch_id)]
    ELSE fork

(***************************************************************************)
(* AuditLog                                                                 *)
(***************************************************************************)
\* "0" * 64
GENESIS_HASH == [i \in 1..HashHexWidth |-> 48]

\* json.dumps(payload, sort_keys=True): the members in the order of their keys
JsonDumps(payload) ==
    << <<"action", payload.action>>, <<"args", payload.args>>, <<"index", payload.index>>,
       <<"prev_hash", payload.prev_hash>>, <<"timestamp", payload.timestamp>> >>

\* hashlib.sha256(encoded).hexdigest(), taken as collision-free: the digest
\* stands for the text it was computed from
Sha256Hex(encoded) == <<"sha256", encoded>>

\* AuditLog._compute_hash(payload)
AuditLog_compute_hash(payload) == Sha256Hex(JsonDumps(payload))

EntryPayload(entry) ==
    [index |-> entry.index, timestamp |-> entry.timestamp, action |-> entry.action,
     args |-> entry.args, prev_hash |-> entry.prev_hash]

\* a faulty new_entry: the hash is taken over the index counted from one, while
\* the entry stores the index counted from zero
AuditLog_new_entry_hash_off_by_one(entries, action, args, now) ==
    LET index == Len(entries)
        prev_hash == IF Len(entries) > 0 THEN entries[Len(entries)].hash ELSE GENESIS_HASH
        payload == [index |-> index + 1, timestamp |-> now, action |-> action,
                    args |-> args, prev_hash |-> prev_hash]
    IN  [index |-> index, timestamp |-> now, action |-> action, args |-> args,
         prev_hash |-> prev_hash, hash |-> AuditLog_compute_hash(payload)]

\* a faulty new_entry: every entry is linked to the genesis value
AuditLog_new_entry_unlinked(entries, action, args, now) ==
    LET index == Len(entries)
        payload == [index |-> index, timestamp |-> now, action |-> action,
                    args |-> args, prev_hash |-> GENESIS_HASH]
    IN  [index |-> index, timestamp |-> now, action |-> action, args |-> args,
         prev_hash |-> GENESIS_HASH, hash |-> AuditLog_compute_hash(payload)]

\* the entry AuditLog.append(action, *args) builds at time now
AuditLog_new_entry(entries, action, args, now) ==
    LET index == Len(entries)
        prev_hash == IF Len(entries) > 0 THEN entries[Len(entries)].hash ELSE GENESIS_HASH
        payload == [index |-> index, timestamp |-> now, action |-> action,
                    args |-> args, prev_hash |-> prev_hash]
    IN  [index |-> index, timestamp |-> now, action |-> action, args |-> args,
         prev_hash |-> prev_hash, hash |-> AuditLog_compute_hash(payload)]

\* a faulty append: a ring that keeps the newest entry only
AuditLog_append_ring(entries, action, args, now) ==
    <<AuditLog_new_entry(entries, action, args, now)>>

\* AuditLog.append(action, *args): the entries afterwards
AuditLog_append(entries, action, args, now) ==
    Append(entries, AuditLog_new_entry(entries, action, args, now))

\* a faulty verify: the linkage is checked, the hashes are not recomputed
AuditLog_verify_linkage_only(entries) ==
    \A i \in 1..Len(entries) :
        entries[i].prev_hash = (IF i > 1 THEN entries[i - 1].hash ELSE GENESIS_HASH)

\* AuditLog.verify()
AuditLog_verify(entries) ==
    \A i \in 1..Len(entries) :
        LET entry == entries[i]
            expected_prev == IF i > 1 THEN entries[i - 1].hash ELSE GENESIS_HASH
        IN  /\ entry.prev_hash = expected_prev
            /\ AuditLog_compute_hash(EntryPayload(entry)) = entry.hash

\* AuditLog.last(n) is self._entries[-n:]
AuditLog_last(entries, n) ==
    IF n = 0 THEN entries
    ELSE SubSeq(entries, IF Len(entries) - n < 0 THEN 1 ELSE Len(entries) - n + 1, Len(entries))

(***************************************************************************)
(* Space.  Every method is an operator on the world w (the objects, the two *)
(* dicts, the chain and the time) that gives the world afterwards, the      *)
(* error raised ("ok" when none) and the value returned.                    *)
(***************************************************************************)
Ok(w, res) == [w |-> w, err |-> "ok", res |-> res]

Raise(w, err) == [w |-> w, err |-> err, res |-> <<>>]

\* self._audit.append(action, *args); each reading of the time is later than the last
Log(w, action, args) ==
    [w EXCEPT !.audit = AuditLog_append(@, action, args, w.clock), !.clock = @ + 1]

CodeOf(w, o) == SemanticID_code(w.heap[o].id)

\* a faulty add: the coordinate is not looked up first
Space_add_unchecked(w, o) ==
    Ok(Log([w EXCEPT !.nodes = DictSet(@, CodeOf(w, o), o)],
           "ADD", <<CodeOf(w, o), w.heap[o].label>>), o)

\* Space.add(node)
Space_add(w, o) ==
    LET code == CodeOf(w, o)
    IN  IF DictHas(w.nodes, code) THEN Raise(w, "DuplicateCoordinate")
        ELSE Ok(Log([w EXCEPT !.nodes = DictSet(@, code, o)], "ADD", <<code, w.heap[o].label>>), o)

\* Space.get(code): None or the node
Space_get(w, code) == IF DictHas(w.nodes, code) THEN <<DictGet(w.nodes, code)>> ELSE <<>>

\* Space.nodes(): the stored objects in insertion order
Space_nodes(w) == DictValues(w.nodes)

\* Space.find_by_label(label, case_sensitive)
Space_find_by_label(w, label, case_sensitive) ==
    IF case_sensitive
    THEN SelectSeq(Space_nodes(w), LAMBDA n : w.heap[n].label = label)
    ELSE SelectSeq(Space_nodes(w), LAMBDA n : Lower(w.heap[n].label) = Lower(label))

\* a faulty add_relation: the target is not looked up
Space_add_relation_source_only(w, source, rel_type, target) ==
    IF ~DictHas(w.nodes, CodeOf(w, source)) THEN Raise(w, "UnknownNode")
    ELSE Ok(Log([w EXCEPT !.heap[source] = Node_add_relation(@, rel_type, w.heap[target])],
                "RELATE", <<CodeOf(w, source), rel_type, CodeOf(w, target)>>), <<>>)

\* Space.add_relation(source, rel_type, target): the relation goes on the object passed
Space_add_relation(w, source, rel_type, target) ==
    IF ~DictHas(w.nodes, CodeOf(w, source)) THEN Raise(w, "UnknownNode")
    ELSE IF ~DictHas(w.nodes, CodeOf(w, target)) THEN Raise(w, "UnknownNode")
    ELSE Ok(Log([w EXCEPT !.heap[source] = Node_add_relation(@, rel_type, w.heap[target])],
                "RELATE", <<CodeOf(w, source), rel_type, CodeOf(w, target)>>), <<>>)

\* the instances of the stored nodes that share the subtype of id
ExistingInstances(w, id) ==
    LET sharing == SelectSeq(Space_nodes(w), LAMBDA n : shares_subtype(w.heap[n].id, id))
    IN  [i \in 1..Len(sharing) |-> w.heap[sharing[i]].id.instance]

RECURSIVE ForkLoop(_, _, _, _, _, _)
\* the loop of create_fork over the branch labels still to do; SemanticID.create
\* raises out of it when the instance leaves its range
ForkLoop(w, source, labels, next_instance, branches, branch_ids) ==
    IF Len(labels) = 0
    THEN [w |-> w, err |-> "ok", branches |-> branches, branch_ids |-> branch_ids]
    ELSE LET src == w.heap[source]
         IN  IF ~SemanticID_valid(src.id.major, src.id.type_, src.id.subtype, next_instance)
             THEN [w |-> w, err |-> "RangeError", branches |-> branches, branch_ids |-> branch_ids]
             ELSE LET branch_id == MkID(src.id.major, src.id.type_, src.id.subtype, next_instance)
                      made == MkNode(branch_id, src.label \o COLON \o labels[1],
                                     << <<"forked_from", SemanticID_code(src.id)>> >>)
                      branch_node == Node_add_relation(made, "FORKED_FROM", src)
                      o == Len(w.heap) + 1
                      w2 == [w EXCEPT !.heap = Append(@, branch_node),
                                      !.nodes = DictSet(@, SemanticID_code(branch_id), o)]
                  IN  ForkLoop(w2, source, Tail(labels), next_instance + 1,
                               Append(branches, o), Append(branch_ids, branch_id))

\* a faulty next_instance: the largest instance itself, not the one after it
NextInstance_no_increment(w, id) == MaxOf(ExistingInstances(w, id), 0)

\* a faulty next_instance: the one after the source, not after the largest
NextInstance_after_source(w, id) == id.instance + 1

\* next_instance of create_fork
NextInstance(w, id) == MaxOf(ExistingInstances(w, id), 0) + 1

\* a faulty create_fork: the branches of a Fork already registered for the
\* source are kept in front of the new ones
Space_create_fork_merging(w, source, branch_labels) ==
    IF ~DictHas(w.nodes, CodeOf(w, source)) THEN Raise(w, "UnknownNode")
    ELSE LET src == w.heap[source]
             done == ForkLoop(w, source, branch_labels, NextInstance(w, src.id), <<>>, <<>>)
             kept == IF DictHas(w.forks, CodeOf(w, source))
                     THEN w.fheap[DictGet(w.forks, CodeOf(w, source))].branches
                     ELSE <<>>
         IN  IF done.err # "ok" THEN Raise(done.w, done.err)
             ELSE LET f == Len(done.w.fheap) + 1
                      fork == MkFork(src.id, kept \o done.branch_ids, w.clock)
                      w2 == [done.w EXCEPT !.clock = @ + 1,
                                           !.fheap = Append(@, fork),
                                           !.forks = DictSet(@, SemanticID_code(src.id), f)]
                      codes == [i \in 1..Len(done.branch_ids) |->
                                   SemanticID_code(done.branch_ids[i])]
                  IN  Ok(Log(w2, "FORK", <<SemanticID_code(src.id), codes>>),
                         [fork |-> f, branches |-> done.branches])

\* Space.create_fork(source, branch_labels): returns (fork, branches)
Space_create_fork(w, source, branch_labels) ==
    IF ~DictHas(w.nodes, CodeOf(w, source)) THEN Raise(w, "UnknownNode")
    ELSE LET src == w.heap[source]
             done == ForkLoop(w, source, branch_labels, NextInstance(w, src.id), <<>>, <<>>)
         IN  IF done.err # "ok" THEN Raise(done.w, done.err)
             ELSE LET f == Len(done.w.fheap) + 1
                      fork == MkFork(src.id, done.branch_ids, w.clock)
                      w2 == [done.w EXCEPT !.clock = @ + 1,
                                           !.fheap = Append(@, fork),
                                           !.forks = DictSet(@, SemanticID_code(src.id), f)]
                      codes == [i \in 1..Len(done.branch_ids) |->
                                   SemanticID_code(done.branch_ids[i])]
                  IN  Ok(Log(w2, "FORK", <<SemanticID_code(src.id), codes>>),
                         [fork |-> f, branches |-> done.branches])

\* Space.get_fork(source): None or the fork
Space_get_fork(w, source) ==
    IF DictHas(w.forks, CodeOf(w, source)) THEN <<DictGet(w.forks, CodeOf(w, source))>> ELSE <<>>

(***************************************************************************)
(* Derivations                                                              *)
(***************************************************************************)
\* SemanticID.distance(other)
SemanticID_distance(a, b) ==
    IF SemanticID_code(a) = SemanticID_code(b) THEN 0
    ELSE IF shares_subtype(a, b) THEN 1
    ELSE IF shares_type(a, b) THEN 2
    ELSE IF shares_category(a, b) THEN 3
    ELSE 4

\* a faulty sibling list: the nodes of the same major, whatever their type
SiblingsOf_same_major(w, id) ==
    SelectSeq(Space_nodes(w),
              LAMBDA n : shares_category(w.heap[n].id, id)
                         /\ SemanticID_code(w.heap[n].id) # SemanticID_code(id))

\* the list derive_siblings returns
SiblingsOf(w, id) ==
    SelectSeq(Space_nodes(w),
              LAMBDA n : shares_type(w.heap[n].id, id)
                         /\ SemanticID_code(w.heap[n].id) # SemanticID_code(id))

\* Space.derive_siblings(node)
Space_derive_siblings(w, node) ==
    Ok(Log(w, "DERIVE", <<"siblings", CodeOf(w, node)>>), SiblingsOf(w, w.heap[node].id))

\* Space.derive_cousins(node)
Space_derive_cousins(w, node) ==
    Ok(Log(w, "DERIVE", <<"cousins", CodeOf(w, node)>>),
       SelectSeq(Space_nodes(w),
                 LAMBDA n : shares_subtype(w.heap[n].id, w.heap[node].id)
                            /\ CodeOf(w, n) # CodeOf(w, node)))

\* Space.derive_category(major)
Space_derive_category(w, major) ==
    Ok(Log(w, "DERIVE", <<"category", major>>),
       SelectSeq(Space_nodes(w), LAMBDA n : w.heap[n].id.major = major))

\* f"{num/den:.2f}" for den below 40: the quotient rounded to hundredths, an
\* exact tie (a dyadic value such as 0.125) going to the even neighbour
FormatTension(num, den) ==
    LET q == (100 * num) \div den
        r == (100 * num) % den
        h == IF 2 * r > den THEN q + 1
             ELSE IF 2 * r = den /\ q % 2 = 1 THEN q + 1
             ELSE q
    IN  Digits(h \div 100) \o <<46>> \o ZeroPad(Digits(h % 100), 2)

\* a faulty derive_tension: counts the forks of the Space, not the branches of
\* the node's fork
Space_derive_tension_fork_total(w, node) ==
    LET num == Len(w.forks) + 1
        den == Node_relation_count(w.heap[node]) + 1
    IN  Ok(Log(w, "DERIVE", <<"tension", CodeOf(w, node), FormatTension(num, den)>>),
           [num |-> num, den |-> den])

\* Space.derive_tension(node): the quotient as the pair it is computed from
Space_derive_tension(w, node) ==
    LET code == CodeOf(w, node)
        fork_count == IF DictHas(w.forks, code)
                      THEN Fork_branch_count(w.fheap[DictGet(w.forks, code)]) ELSE 0
        relation_count == Node_relation_count(w.heap[node])
        num == fork_count + 1
        den == relation_count + 1
    IN  Ok(Log(w, "DERIVE", <<"tension", code, FormatTension(num, den)>>),
           [num |-> num, den |-> den])

RECURSIVE SortedByDistance(_, _, _)
\* sorted(result, key=distance): stable, so each distance keeps the scan order
SortedByDistance(result, d, max_d) ==
    IF d > max_d THEN <<>>
    ELSE SelectSeq(result, LAMBDA x : x.dist = d) \o SortedByDistance(result, d + 1, max_d)

\* Space.derive_neighbors(node, max_distance)
Space_derive_neighbors(w, node, max_distance) ==
    LET others == SelectSeq(Space_nodes(w), LAMBDA n : CodeOf(w, n) # CodeOf(w, node))
        scored == [i \in 1..Len(others) |->
                      [node |-> others[i],
                       dist |-> SemanticID_distance(w.heap[node].id, w.heap[others[i]].id)]]
        result == SelectSeq(scored, LAMBDA x : x.dist <= max_distance)
    IN  Ok(Log(w, "DERIVE", <<"neighbors", CodeOf(w, node), max_distance>>),
           SortedByDistance(result, 0, 4))

\* the "(via sibling)" marker in a path, whose other members are Node objects
VIA_SIBLING == 0

RECURSIVE FlattenTargets(_)
\* the targets in the order  for rel_type, targets in relations.items(): for target_code in targets
FlattenTargets(relations) ==
    IF Len(relations) = 0 THEN <<>> ELSE relations[1].v \o FlattenTargets(Tail(relations))

RECURSIVE Space_derive_path(_, _, _, _)
RECURSIVE PathOverTargets(_, _, _, _, _)
RECURSIVE PathOverSiblings(_, _, _, _, _)
RECURSIVE PathOverTargets_unshared(_, _, _, _, _)

\* a faulty loop over the targets: each recursive call works on a copy of
\* visited, so that what it has visited is forgotten when it gives no path
PathOverTargets_unshared(w, start, end, visited, targets) ==
    IF Len(targets) = 0
    THEN [w |-> w, visited |-> visited, path |-> <<>>, found |-> FALSE, expanded |-> <<>>]
    ELSE IF targets[1] = CodeOf(w, end)
    THEN [w |-> Log(w, "DERIVE", <<"path", CodeOf(w, start), "->", CodeOf(w, end)>>),
          visited |-> visited, path |-> <<start, end>>, found |-> TRUE, expanded |-> <<>>]
    ELSE IF DictHas(w.nodes, targets[1])
    THEN LET sub == Space_derive_path(w, DictGet(w.nodes, targets[1]), end, visited)
         IN  IF sub.found
             THEN [w |-> sub.w, visited |-> sub.visited, path |-> <<start>> \o sub.path,
                   found |-> TRUE, expanded |-> sub.expanded]
             ELSE [PathOverTargets_unshared(sub.w, start, end, visited, Tail(targets))
                      EXCEPT !.expanded = sub.expanded \o @]
    ELSE PathOverTargets_unshared(w, start, end, visited, Tail(targets))

\* the loop of derive_path over the explicit relation targets still to try;
\* expanded lists the coordinates put into visited by the calls made, in order
PathOverTargets(w, start, end, visited, targets) ==
    IF Len(targets) = 0
    THEN [w |-> w, visited |-> visited, path |-> <<>>, found |-> FALSE, expanded |-> <<>>]
    ELSE IF targets[1] = CodeOf(w, end)
    THEN [w |-> Log(w, "DERIVE", <<"path", CodeOf(w, start), "->", CodeOf(w, end)>>),
          visited |-> visited, path |-> <<start, end>>, found |-> TRUE, expanded |-> <<>>]
    ELSE IF DictHas(w.nodes, targets[1])
    THEN LET sub == Space_derive_path(w, DictGet(w.nodes, targets[1]), end, visited)
         IN  IF sub.found
             THEN [w |-> sub.w, visited |-> sub.visited, path |-> <<start>> \o sub.path,
                   found |-> TRUE, expanded |-> sub.expanded]
             ELSE [PathOverTargets(sub.w, start, end, sub.visited, Tail(targets))
                      EXCEPT !.expanded = sub.expanded \o @]
    ELSE PathOverTargets(w, start, end, visited, Tail(targets))

\* the loop of derive_path over the siblings still to try
PathOverSiblings(w, start, end, visited, siblings) ==
    IF Len(siblings) = 0
    THEN [w |-> w, visited |-> visited, path |-> <<>>, found |-> FALSE, expanded |-> <<>>]
    ELSE IF CodeOf(w, siblings[1]) \notin visited
    THEN LET sub == Space_derive_path(w, siblings[1], end, visited)
         IN  IF sub.found
             THEN [w |-> sub.w, visited |-> sub.visited,
                   path |-> <<start, VIA_SIBLING>> \o sub.path, found |-> TRUE,
                   expanded |-> sub.expanded]
             ELSE [PathOverSiblings(sub.w, start, end, sub.visited, Tail(siblings))
                      EXCEPT !.expanded = sub.expanded \o @]
    ELSE PathOverSiblings(w, start, end, visited, Tail(siblings))

\* a derive_path that tries the siblings before the explicit relations
Space_derive_path_siblings_first(w, start, end, visited) ==
    IF CodeOf(w, start) = CodeOf(w, end)
    THEN [w |-> w, visited |-> visited, path |-> <<start>>, found |-> TRUE, expanded |-> <<>>]
    ELSE IF CodeOf(w, start) \in visited
    THEN [w |-> w, visited |-> visited, path |-> <<>>, found |-> FALSE, expanded |-> <<>>]
    ELSE LET seen == visited \cup {CodeOf(w, start)}
             asked == Space_derive_siblings(w, start)
             detour == PathOverSiblings(asked.w, start, end, seen, asked.res)
         IN  IF detour.found THEN [detour EXCEPT !.expanded = <<CodeOf(w, start)>> \o @]
             ELSE [PathOverTargets(detour.w, start, end, detour.visited,
                                   FlattenTargets(w.heap[start].relations))
                      EXCEPT !.expanded = <<CodeOf(w, start)>> \o detour.expanded \o @]

\* the rest of derive_path once the explicit relations have given no path
PathAfterTargets(w, start, end, direct) ==
    LET asked == Space_derive_siblings(direct.w, start)
    IN  [PathOverSiblings(asked.w, start, end, direct.visited, asked.res)
            EXCEPT !.expanded = <<CodeOf(w, start)>> \o direct.expanded \o @]

\* derive_path from visited.add(start.id.code) on
PathExpand(w, start, end, direct) ==
    IF direct.found THEN [direct EXCEPT !.expanded = <<CodeOf(w, start)>> \o @]
    ELSE PathAfterTargets(w, start, end, direct)

\* Space.derive_path(start, end, visited): found is "the result is not None"
Space_derive_path(w, start, end, visited) ==
    IF CodeOf(w, start) = CodeOf(w, end)
    THEN [w |-> w, visited |-> visited, path |-> <<start>>, found |-> TRUE, expanded |-> <<>>]
    ELSE IF CodeOf(w, start) \in visited
    THEN [w |-> w, visited |-> visited, path |-> <<>>, found |-> FALSE, expanded |-> <<>>]
    ELSE PathExpand(w, start, end,
                    PathOverTargets(w, start, end, visited \cup {CodeOf(w, start)},
                                    FlattenTargets(w.heap[start].relations)))

(***************************************************************************)
(* DeterministicWrapper.  An input is [isStr, s]: whether it is a str, and  *)
(* str(input).  A context is a record of optional entries.                  *)
(***************************************************************************)
\* "sense_1", "sense_2"
DefaultBranchLabels ==
    << <<115, 101, 110, 115, 101, 95, 49>>, <<115, 101, 110, 115, 101, 95, 50>> >>

\* a faulty propose_strategy: several matches are not told from one
propose_strategy_first_match(w, input, context) ==
    IF input.isStr
    THEN IF Len(Space_find_by_label(w, Strip(input.s), FALSE)) > 0
         THEN "RETURN_EXISTING" ELSE "CREATE_NODE"
    ELSE "ESCALATE"

\* DeterministicWrapper.propose_strategy(input_data, context)
propose_strategy(w, input, context) ==
    IF input.isStr
    THEN LET label == Strip(input.s)
             existing == Space_find_by_label(w, label, FALSE)
         IN  IF Len(existing) > 0
             THEN IF Len(existing) > 1 THEN "CREATE_FORK" ELSE "RETURN_EXISTING"
             ELSE "CREATE_NODE"
    ELSE "ESCALATE"

\* a faulty _create_node: the instance is taken from the time
Wrapper_create_node_by_time(w, label, context) ==
    LET major == CtxGet(context.major, 8)
        type_ == CtxGet(context.type, 1)
        subtype == CtxGet(context.subtype, 1)
        instance == w.clock
    IN  IF ~SemanticID_valid(major, type_, subtype, instance) THEN Raise(w, "RangeError")
        ELSE LET node == MkNode(MkID(major, type_, subtype, instance), label, <<>>)
                 o == Len(w.heap) + 1
                 added == Space_add([w EXCEPT !.heap = Append(@, node)], o)
             IN  IF added.err # "ok" THEN Raise(w, added.err) ELSE added

\* a faulty _create_node: the instance is one more than the number of the
\* nodes that share the triple, not one more than the largest instance
Wrapper_create_node_by_count(w, label, context) ==
    LET major == CtxGet(context.major, 8)
        type_ == CtxGet(context.type, 1)
        subtype == CtxGet(context.subtype, 1)
        sharing == SelectSeq(Space_nodes(w),
                             LAMBDA n : /\ w.heap[n].id.major = major
                                        /\ w.heap[n].id.type_ = type_
                                        /\ w.heap[n].id.subtype = subtype)
        instance == Len(sharing) + 1
    IN  IF ~SemanticID_valid(major, type_, subtype, instance) THEN Raise(w, "RangeError")
        ELSE LET node == MkNode(MkID(major, type_, subtype, instance), label, <<>>)
                 o == Len(w.heap) + 1
                 added == Space_add([w EXCEPT !.heap = Append(@, node)], o)
             IN  IF added.err # "ok" THEN Raise(w, added.err) ELSE added

\* DeterministicWrapper._create_node(label, context)
Wrapper_create_node(w, label, context) ==
    LET major == CtxGet(context.major, 8)
        type_ == CtxGet(context.type, 1)
        subtype == CtxGet(context.subtype, 1)
        sharing == SelectSeq(Space_nodes(w),
                             LAMBDA n : /\ w.heap[n].id.major = major
                                        /\ w.heap[n].id.type_ = type_
                                        /\ w.heap[n].id.subtype = subtype)
        existing == [i \in 1..Len(sharing) |-> w.heap[sharing[i]].id.instance]
        instance == MaxOf(existing, 0) + 1
    IN  IF ~SemanticID_valid(major, type_, subtype, instance) THEN Raise(w, "RangeError")
        ELSE LET node == MkNode(MkID(major, type_, subtype, instance), label, <<>>)
                 o == Len(w.heap) + 1
                 added == Space_add([w EXCEPT !.heap = Append(@, node)], o)
             IN  IF added.err # "ok" THEN Raise(w, added.err) ELSE added

\* DeterministicWrapper._create_fork(label, context)
Wrapper_create_fork(w, label, context) ==
    LET existing == Space_find_by_label(w, label, FALSE)
    IN  IF Len(existing) = 0 THEN Raise(w, "NoSuchLabel")
        ELSE Space_create_fork(w, existing[1],
                               CtxGet(context.branch_labels, DefaultBranchLabels))

\* DeterministicWrapper.apply_strategy(strategy, input_data, context)
apply_strategy(w, strategy, input, context) ==
    IF strategy = "CREATE_NODE" THEN Wrapper_create_node(w, input.s, context)
    ELSE IF strategy = "RETURN_EXISTING" THEN Ok(w, Space_find_by_label(w, input.s, FALSE))
    ELSE IF strategy = "CREATE_FORK" THEN Wrapper_create_fork(w, input.s, context)
    ELSE IF strategy = "ESCALATE" THEN Ok(w, [escalated |-> TRUE, input |-> input])
    ELSE Raise(w, "UnhandledStrategy")

\* str(result), as the parts of the result it is rendered from
ResultStr(w, strategy, res) ==
    LET node_str(o) == <<"Node", CodeOf(w, o), w.heap[o].label>>
    IN  IF strategy = "CREATE_NODE" THEN node_str(res)
        ELSE IF strategy = "RETURN_EXISTING" THEN <<"list", [i \in 1..Len(res) |-> node_str(res[i])]>>
        ELSE IF strategy = "CREATE_FORK"
        THEN <<"tuple", SemanticID_code(w.fheap[res.fork].source_id),
               [i \in 1..Len(res.branches) |-> node_str(res.branches[i])]>>
        ELSE <<"dict", res.input.s>>

\* a faulty handle: the decision carries the hash of the entry before its own
Wrapper_record_stale_hash(w, decs, input, context, strategy, res, args) ==
    LET decision == [strategy |-> strategy, input_data |-> input,
                     context |-> context, result |-> res,
                     audit_hash |-> IF Len(w.audit) = 0 THEN GENESIS_HASH
                                    ELSE w.audit[Len(w.audit)].hash]
    IN  [w |-> Log(w, "DECISION", args),
         decisions |-> Append(decs, decision), err |-> "ok", res |-> decision]

\* handle, after apply_strategy has returned: the decision is logged, recorded
\* and returned
Wrapper_record(w, decs, input, context, strategy, res, args) ==
    LET entry == AuditLog_new_entry(w.audit, "DECISION", args, w.clock)
        decision == [strategy |-> strategy, input_data |-> input,
                     context |-> context, result |-> res,
                     audit_hash |-> entry.hash]
    IN  [w |-> Log(w, "DECISION", args),
         decisions |-> Append(decs, decision), err |-> "ok", res |-> decision]

\* handle, after apply_strategy: an error of apply_strategy leaves before
\* anything is logged
Wrapper_applied(decs, input, context, strategy, applied) ==
    IF applied.err # "ok"
    THEN [w |-> applied.w, decisions |-> decs, err |-> applied.err, res |-> <<>>]
    ELSE Wrapper_record(applied.w, decs, input, context, strategy, applied.res,
                        <<strategy, Truncate(input.s, TruncateLen),
                          ResultStr(applied.w, strategy, applied.res)>>)

\* handle, after propose_strategy
Wrapper_proposed(w, decs, input, context, strategy) ==
    Wrapper_applied(decs, input, context, strategy,
                    apply_strategy(w, strategy, input, context))

\* DeterministicWrapper.handle(input_data, context), on the world and the
\* decision list
Wrapper_handle(w, decs, input, context) ==
    Wrapper_proposed(w, decs, input, context, propose_strategy(w, input, context))

(***************************************************************************)
(* The values the callers pass.                                             *)
(***************************************************************************)
L_a == <<97>>
L_A == <<65>>
L_b == <<98>>
L_sp_a == <<32, 97>>
L_x == <<120>>
L_y == <<121>>

\* the Node objects the callers have built: two with the same coordinate, and
\* one of the same type in another subtype, one below the largest instance
NodePool ==
    << MkNode(MkID(1, 1, 1, 1), L_a, <<>>),
       MkNode(MkID(1, 1, 1, 1), L_b, <<>>),
       MkNode(MkID(1, 1, 2, MaxInstance - 1), L_A, <<>>) >>

BranchLabelsPool == {<<>>, <<L_x>>, <<L_x, L_y>>}

RelationTypes ==
    {"IS_A", "PART_OF", "HAS_PROPERTY", "CAUSES", "LOCATED_IN", "OCCURS_AT",
     "SIMILAR_TO", "CONTRADICTS", "FORKED_FROM", "DERIVED_FROM"}

RelPool == {"IS_A", "CAUSES"}

MajorPool == {1, 8}

DistancePool == {1, 2}

StrInput(s) == [isStr |-> TRUE, s |-> s]

IntInput(n) == [isStr |-> FALSE, s |-> Digits(n)]

InputPool == {StrInput(L_a), StrInput(L_sp_a), IntInput(7)}

EmptyContext == [major |-> <<>>, type |-> <<>>, subtype |-> <<>>, branch_labels |-> <<>>]

ContextPool ==
    {EmptyContext,
     [major |-> <<1>>, type |-> <<1>>, subtype |-> <<2>>, branch_labels |-> << <<L_x>> >>]}

NotePool == {<<>>, <<L_a>>}

(***************************************************************************)
(* The state machine.                                                       *)
(***************************************************************************)
World ==
    [heap |-> heap, nodes |-> nodes, fheap |-> fheap, forks |-> forks,
     audit |-> audit, clock |-> clock]

SetWorld(w) ==
    /\ heap' = w.heap
    /\ nodes' = w.nodes
    /\ fheap' = w.fheap
    /\ forks' = w.forks
    /\ audit' = w.audit
    /\ clock' = w.clock

Returned(op, args, r) == ret' = [op |-> op, args |-> args, err |-> r.err, res |-> r.res]

Objects == 1..Len(heap)

\* no caller runs beside the one whose calls are the actions
NoThreads == [locked |-> FALSE, holder |-> 0, th |-> <<>>]

\* Space(), and the Node objects its caller has built
EmptyWorld(pool) ==
    [heap |-> pool, nodes |-> <<>>, fheap |-> <<>>, forks |-> <<>>, audit |-> <<>>, clock |-> 1]

InitWith(b) ==
    /\ heap = NodePool
    /\ nodes = <<>>
    /\ fheap = <<>>
    /\ forks = <<>>
    /\ audit = <<>>
    /\ decisions = <<>>
    /\ clock = 1
    /\ ret = [op |-> "init", args |-> <<>>, err |-> "ok", res |-> <<>>]
    /\ budget = b
    /\ twin = EmptyWorld(NodePool)
    /\ threads = NoThreads

Init == InitWith(MaxAudit)

Call(op, args, r) ==
    /\ Len(audit) < budget
    /\ SetWorld(r.w)
    /\ Returned(op, args, r)
    /\ UNCHANGED <<decisions, budget, twin, threads>>

Add == \E o \in Objects : Call("add", <<o>>, Space_add(World, o))

AddRelation ==
    \E s \in Objects, t \in Objects, k \in RelPool :
        Call("add_relation", <<s, k, t>>, Space_add_relation(World, s, k, t))

CreateFork ==
    \E s \in Objects, labels \in BranchLabelsPool :
        Call("create_fork", <<s, labels>>, Space_create_fork(World, s, labels))

DeriveSiblings == \E o \in Objects : Call("derive_siblings", <<o>>, Space_derive_siblings(World, o))

DeriveCousins == \E o \in Objects : Call("derive_cousins", <<o>>, Space_derive_cousins(World, o))

DeriveCategory == \E m \in MajorPool : Call("derive_category", <<m>>, Space_derive_category(World, m))

DerivePath ==
    \E s \in Objects, e \in Objects :
        LET r == Space_derive_path(World, s, e, {})
        IN  Call("derive_path", <<s, e>>,
                 [w |-> r.w, err |-> "ok", res |-> IF r.found THEN <<r.path>> ELSE <<>>])

DeriveTension == \E o \in Objects : Call("derive_tension", <<o>>, Space_derive_tension(World, o))

DeriveNeighbors ==
    \E o \in Objects, d \in DistancePool :
        Call("derive_neighbors", <<o, d>>, Space_derive_neighbors(World, o, d))

\* the coordinates a caller passes to the methods of a Fork: those of its own
\* nodes, and for resolve those of the fork's branches as well
PoolIDs == {NodePool[i].id : i \in 1..Len(NodePool)}

BranchIDs(f) == {fheap[f].branches[i] : i \in 1..Len(fheap[f].branches)}

ForkResolve ==
    \E f \in 1..Len(fheap) : \E chosen \in PoolIDs \cup BranchIDs(f) :
        LET r == Fork_resolve(fheap[f], chosen)
        IN  /\ fheap' = [fheap EXCEPT ![f] = r.fork]
            /\ ret' = [op |-> "resolve", args |-> <<f, chosen>>, err |-> r.err, res |-> <<>>]
            /\ UNCHANGED <<heap, nodes, forks, audit, decisions, clock, budget, twin, threads>>

ForkAddBranch ==
    \E f \in 1..Len(fheap), branch_id \in PoolIDs :
        /\ fheap' = [fheap EXCEPT ![f] = Fork_add_branch(fheap[f], branch_id)]
        /\ ret' = [op |-> "add_branch", args |-> <<f, branch_id>>, err |-> "ok", res |-> <<>>]
        /\ UNCHANGED <<heap, nodes, forks, audit, decisions, clock, budget, twin, threads>>

Handle ==
    \E input \in InputPool, context \in ContextPool :
        LET r == Wrapper_handle(World, decisions, input, context)
        IN  /\ Len(audit) < budget
            /\ SetWorld(r.w)
            /\ decisions' = r.decisions
            /\ ret' = [op |-> "handle", args |-> <<input, context>>, err |-> r.err, res |-> r.res]
            /\ UNCHANGED <<budget, twin, threads>>

\* propose_strategy called by itself: it reads the Space and returns a Strategy
Propose ==
    \E input \in InputPool, context \in ContextPool :
        /\ Len(audit) < budget
        /\ ret' = [op |-> "propose_strategy", args |-> <<input, context>>, err |-> "ok",
                   res |-> propose_strategy(World, input, context)]
        /\ UNCHANGED <<heap, nodes, fheap, forks, audit, decisions, clock, budget, twin, threads>>

\* a caller appends to the chain directly
AuditAppend ==
    \E args \in NotePool :
        /\ Len(audit) < budget
        /\ ret.op # "tamper"
        /\ audit' = AuditLog_append(audit, "NOTE", args, clock)
        /\ clock' = clock + 1
        /\ ret' = [op |-> "append", args |-> <<"NOTE", args>>, err |-> "ok",
                   res |-> audit'[Len(audit')]]
        /\ UNCHANGED <<heap, nodes, fheap, forks, decisions, budget, twin, threads>>

Next ==
    \/ Add
    \/ AddRelation
    \/ CreateFork
    \/ DeriveSiblings
    \/ DeriveCousins
    \/ DeriveCategory
    \/ DerivePath
    \/ DeriveTension
    \/ DeriveNeighbors
    \/ Handle
    \/ AuditAppend

Spec == Init /\ [][Next]_vars

\* the store alone: nodes, relations, forks and the tension query
InitStore == InitWith(MaxStoreAudit)

NextStore ==
    \/ Add
    \/ AddRelation
    \/ CreateFork
    \/ DeriveTension

SpecStore == InitStore /\ [][NextStore]_vars

\* the Fork objects a Space hands out, and the calls of their methods
InitFork == InitWith(MaxForkAudit)

NextFork ==
    \/ Add
    \/ CreateFork
    \/ ForkResolve
    \/ ForkAddBranch

SpecFork == InitFork /\ [][NextFork]_vars

(***************************************************************************)
(* Tampering: somebody with access to the entries changes one stored field  *)
(* of one entry of a chain built by append, once, as the test               *)
(* test_tamper_detection does.                                              *)
(***************************************************************************)
\* the digests at hand: the genesis value, the stored hashes of the chain, and
\* the hashes of its entries with the action changed
DigestPool ==
    {GENESIS_HASH}
        \cup {audit[i].hash : i \in 1..Len(audit)}
        \cup {AuditLog_compute_hash([EntryPayload(audit[i]) EXCEPT !.action = "TAMPERED"]) :
                 i \in 1..Len(audit)}

TamperValues(field) ==
    IF field = "action" THEN {"NOTE", "TAMPERED"}
    ELSE IF field = "args" THEN NotePool \cup {<<L_b>>}
    ELSE IF field = "timestamp" THEN 0..clock
    ELSE DigestPool

TamperFields == {"action", "args", "timestamp", "prev_hash", "hash"}

Tamper ==
    \E i \in 1..Len(audit), field \in TamperFields :
        \E value \in TamperValues(field) :
            /\ ret.op # "tamper"
            /\ audit[i][field] # value
            /\ audit' = [audit EXCEPT ![i][field] = value]
            /\ ret' = [op |-> "tamper", args |-> <<i, field>>, err |-> "ok", res |-> <<>>]
            /\ UNCHANGED <<heap, nodes, fheap, forks, decisions, clock, budget, twin, threads>>

InitTamper == InitWith(MaxTamperAudit)

NextTamper ==
    \/ AuditAppend
    \/ Tamper

SpecTamper == InitTamper /\ [][NextTamper]_vars

\* audit.last(n) on the chain a caller appends to, for n up to beyond its length
AuditLast ==
    \E n \in 0..(MaxLastAudit + 2) :
        /\ ret' = [op |-> "last", args |-> <<n>>, err |-> "ok", res |-> AuditLog_last(audit, n)]
        /\ UNCHANGED <<heap, nodes, fheap, forks, audit, decisions, clock, budget, twin, threads>>

InitLast == InitWith(MaxLastAudit)

NextLast ==
    \/ AuditAppend
    \/ AuditLast

SpecLast == InitLast /\ [][NextLast]_vars

(***************************************************************************)
(* The seed of examples/growth.py, as far as animal, feline and canine go:  *)
(* the three are added, feline IS_A animal and canine IS_A animal are       *)
(* drawn.  On that Space further relations are drawn and paths asked for.   *)
(***************************************************************************)
L_animal == <<97, 110, 105, 109, 97, 108>>
L_feline == <<102, 101, 108, 105, 110, 101>>
L_canine == <<99, 97, 110, 105, 110, 101>>

SeedPool ==
    << MkNode(MkID(1, 1, 1, 1), L_animal, <<>>),
       MkNode(MkID(1, 1, 2, 1), L_feline, <<>>),
       MkNode(MkID(1, 1, 3, 1), L_canine, <<>>) >>

RECURSIVE AddAll(_, _)
\* space.add(node) for each of the objects, in order
AddAll(w, objs) ==
    IF Len(objs) = 0 THEN w ELSE AddAll(Space_add(w, objs[1]).w, Tail(objs))

RECURSIVE RelateAll(_, _)
\* space.add_relation(source, IS_A, target) for each <<source, target>>, in order
RelateAll(w, pairs) ==
    IF Len(pairs) = 0 THEN w
    ELSE RelateAll(Space_add_relation(w, pairs[1][1], "IS_A", pairs[1][2]).w, Tail(pairs))

Seeded == RelateAll(AddAll(EmptyWorld(SeedPool), <<1, 2, 3>>), << <<2, 1>>, <<3, 1>> >>)

InitPath ==
    /\ heap = Seeded.heap
    /\ nodes = Seeded.nodes
    /\ fheap = Seeded.fheap
    /\ forks = Seeded.forks
    /\ audit = Seeded.audit
    /\ clock = Seeded.clock
    /\ decisions = <<>>
    /\ ret = [op |-> "init", args |-> <<>>, err |-> "ok", res |-> <<>>]
    /\ budget = Len(Seeded.audit) + MaxPathAudit
    /\ twin = EmptyWorld(SeedPool)
    /\ threads = NoThreads

NextPath ==
    \/ AddRelation
    \/ DerivePath

SpecPath == InitPath /\ [][NextPath]_vars

\* a Space where one node has been added and forked: on it forks are resolved
\* and the sources are forked again
ReforkSeeds ==
    {r \in {Space_create_fork(AddAll(EmptyWorld(NodePool), <<c[1]>>), c[1], c[2]) :
               c \in {1, 3} \X BranchLabelsPool} : r.err = "ok"}

InitRefork ==
    \E r \in ReforkSeeds :
        /\ heap = r.w.heap
        /\ nodes = r.w.nodes
        /\ fheap = r.w.fheap
        /\ forks = r.w.forks
        /\ audit = r.w.audit
        /\ clock = r.w.clock
        /\ decisions = <<>>
        /\ ret = [op |-> "init", args |-> <<>>, err |-> "ok", res |-> <<>>]
        /\ budget = Len(r.w.audit) + MaxReforkAudit
        /\ twin = EmptyWorld(NodePool)
        /\ threads = NoThreads

NextRefork ==
    \/ CreateFork
    \/ ForkResolve

SpecRefork == InitRefork /\ [][NextRefork]_vars

(***************************************************************************)
(* Paths over relations of any shape.  The caller has built five nodes and  *)
(* added three of them: two siblings and one node of another type; a fourth *)
(* object carries the coordinate of the third and is not stored, the fifth  *)
(* is of a type of its own and is not stored.  The caller draws relations   *)
(* with Node.add_relation, which looks nothing up, so that cycles,          *)
(* self-loops and targets that are not stored occur, and then asks for one  *)
(* path.                                                                    *)
(***************************************************************************)
GraphPool ==
    << MkNode(MkID(1, 1, 1, 1), L_a, <<>>),
       MkNode(MkID(1, 1, 2, 1), L_b, <<>>),
       MkNode(MkID(1, 2, 1, 1), L_x, <<>>),
       MkNode(MkID(1, 2, 1, 1), L_y, <<>>),
       MkNode(MkID(1, 3, 1, 1), L_A, <<>>) >>

RECURSIVE RelationTotal(_, _)
\* the sum of relation_count() over the first n objects
RelationTotal(objects, n) ==
    IF n = 0 THEN 0 ELSE Node_relation_count(objects[n]) + RelationTotal(objects, n - 1)

InitGraph ==
    LET w == AddAll(EmptyWorld(GraphPool), <<1, 2, 3>>)
    IN  /\ heap = w.heap
        /\ nodes = w.nodes
        /\ fheap = w.fheap
        /\ forks = w.forks
        /\ audit = w.audit
        /\ clock = w.clock
        /\ decisions = <<>>
        /\ ret = [op |-> "init", args |-> <<>>, err |-> "ok", res |-> <<>>]
        /\ budget = Len(w.audit)
        /\ twin = EmptyWorld(GraphPool)
        /\ threads = NoThreads

\* source.add_relation(IS_A, target), called on the Node itself: from any object
\* that carries a stored coordinate, to any coordinate
NodeAddRelation ==
    \E s \in {1, 2, 3, 4}, t \in {1, 2, 3, 5}, k \in {"IS_A"} :
        /\ ret.op = "init"
        /\ RelationTotal(heap, Len(heap)) < MaxGraphEdges
        /\ heap' = [heap EXCEPT ![s] = Node_add_relation(@, k, heap[t])]
        /\ UNCHANGED <<nodes, fheap, forks, audit, decisions, clock, ret, budget, twin, threads>>

\* space.derive_path(start, end), visited left to its default
DerivePathFresh ==
    \E s \in Objects, e \in Objects :
        LET r == Space_derive_path(World, s, e, {})
        IN  /\ ret.op = "init"
            /\ SetWorld(r.w)
            /\ ret' = [op |-> "derive_path", args |-> <<s, e>>, err |-> "ok",
                       res |-> [found |-> r.found, path |-> r.path, expanded |-> r.expanded]]
            /\ UNCHANGED <<decisions, budget, twin, threads>>

NextGraph ==
    \/ NodeAddRelation
    \/ DerivePathFresh

SpecGraph == InitGraph /\ [][NextGraph]_vars

\* the stores a strategy is proposed on
InitPropose == InitWith(MaxProposeAudit)

NextPropose ==
    \/ Add
    \/ CreateFork
    \/ Propose

SpecPropose == InitPropose /\ [][NextPropose]_vars

\* a wrapper that handles inputs, on a Space its owner also adds nodes to
InitWrapper == InitWith(MaxWrapAudit)

NextWrapper ==
    \/ Add
    \/ Handle

SpecWrapper == InitWrapper /\ [][NextWrapper]_vars

(***************************************************************************)
(* Two wrappers, each on a Space of its own to which nodes have been added, *)
(* the second Space later than the first: apply_strategy is called on both  *)
(* with the same arguments.                                                 *)
(***************************************************************************)
\* the members of Strategy that are passed: the four apply_strategy handles
\* and one it does not
StrategyPool == {"CREATE_NODE", "RETURN_EXISTING", "CREATE_FORK", "ESCALATE", "RESOLVE_FORK"}

\* the (strategy, input) pairs passed to apply_strategy: any strategy with a
\* string, and ESCALATE with an input that is not one
ApplyPool ==
    {<<st, StrInput(str)>> : st \in StrategyPool, str \in {L_a, L_sp_a}}
        \cup {<<"ESCALATE", IntInput(7)>>}

\* what a call of apply_strategy gave: the error, and the coordinates and
\* labels of the node it created or of the fork branches it created
OutcomeOf(strategy, r) ==
    LET made(o) == [code |-> CodeOf(r.w, o), label |-> r.w.heap[o].label]
    IN  IF r.err # "ok" THEN [err |-> r.err, created |-> <<>>]
        ELSE IF strategy = "CREATE_NODE" THEN [err |-> "ok", created |-> <<made(r.res)>>]
        ELSE IF strategy = "CREATE_FORK"
        THEN [err |-> "ok",
              created |-> [i \in 1..Len(r.res.branches) |-> made(r.res.branches[i])]]
        ELSE [err |-> "ok", created |-> <<>>]

\* apply_strategy(strategy, input, context) on both wrappers
ApplyBoth ==
    \E call \in ApplyPool, context \in ContextPool :
        LET first == apply_strategy(World, call[1], call[2], context)
            second == apply_strategy(twin, call[1], call[2], context)
        IN  /\ Len(audit) < budget
            /\ Len(twin.audit) < budget
            /\ SetWorld(first.w)
            /\ twin' = second.w
            /\ ret' = [op |-> "apply_strategy", args |-> <<call[1], call[2], context>>,
                       err |-> first.err,
                       res |-> [first |-> OutcomeOf(call[1], first),
                                second |-> OutcomeOf(call[1], second)]]
            /\ UNCHANGED <<decisions, budget, threads>>

\* the Node objects the owner of each Space has built: two labels that differ
\* in case only
TwinPool ==
    << MkNode(MkID(1, 1, 1, 1), L_a, <<>>),
       MkNode(MkID(1, 1, 2, MaxInstance - 1), L_A, <<>>) >>

\* the orders in which the owner of a Space has added some of the objects
AddOrders == {<<>>, <<1>>, <<2>>, <<1, 2>>, <<2, 1>>}

\* the first Space has been filled at once, the second one later
InitTwin ==
    \E mine \in AddOrders, other \in AddOrders :
        LET first == AddAll(EmptyWorld(TwinPool), mine)
            second == AddAll([EmptyWorld(TwinPool) EXCEPT !.clock = @ + Len(TwinPool)], other)
        IN  /\ heap = first.heap
            /\ nodes = first.nodes
            /\ fheap = first.fheap
            /\ forks = first.forks
            /\ audit = first.audit
            /\ clock = first.clock
            /\ decisions = <<>>
            /\ ret = [op |-> "init", args |-> <<>>, err |-> "ok", res |-> <<>>]
            /\ budget = Len(TwinPool) + MaxTwinAudit
            /\ twin = second
            /\ threads = NoThreads

NextTwin == ApplyBoth

SpecTwin == InitTwin /\ [][NextTwin]_vars

(***************************************************************************)
(* Two callers at once.  Space.add and AuditLog.append are run statement by *)
(* statement: the lookup of the coordinate, the store into _nodes, the      *)
(* reading of the length, of the time and of the last hash, and the append  *)
(* of the entry are steps of their own, and the other caller may run        *)
(* between any two of them.  When the host guards the Space with one        *)
(* exclusive lock, a caller takes it before its call and gives it back when *)
(* the call has returned or raised.                                         *)
(***************************************************************************)
ThreadIds == {1, 2}

\* a caller that is in no call
Idle(calls, results) ==
    [pc |-> "idle", action |-> "", args |-> <<>>, o |-> 0, index |-> 0, timestamp |-> 0,
     prev_hash |-> <<>>, calls |-> calls, results |-> results]

SetThread(t, rec) == threads' = [threads EXCEPT !.th[t] = rec]

\* the call has returned or raised: the lock, if any, is given back
Finish(t, op, code, err) ==
    threads' = [threads EXCEPT
                    !.holder = 0,
                    !.th[t] = Idle(threads.th[t].calls + 1,
                                   Append(threads.th[t].results,
                                          [op |-> op, code |-> code, err |-> err]))]

\* the entry that append builds from what it has read
AuditLog_entry(index, timestamp, action, args, prev_hash) ==
    [index |-> index, timestamp |-> timestamp, action |-> action, args |-> args,
     prev_hash |-> prev_hash,
     hash |-> AuditLog_compute_hash([index |-> index, timestamp |-> timestamp,
                                     action |-> action, args |-> args,
                                     prev_hash |-> prev_hash])]

\* a caller enters add(node), for an object it holds, or audit.append("NOTE", "a"),
\* taking the lock when there is one
ThreadCall ==
    \E t \in ThreadIds,
       call \in {[op |-> "add", o |-> o, args |-> <<>>] : o \in Objects}
                    \cup {[op |-> "append", o |-> 0, args |-> <<L_a>>]} :
        /\ threads.th[t].pc = "idle"
        /\ threads.th[t].calls < MaxThreadCalls
        /\ threads.locked => threads.holder = 0
        /\ threads' = [threads EXCEPT
                          !.holder = IF threads.locked THEN t ELSE 0,
                          !.th[t] = [@ EXCEPT
                                        !.pc = IF call.op = "add" THEN "check" ELSE "index",
                                        !.action = IF call.op = "add" THEN "ADD" ELSE "NOTE",
                                        !.args = call.args,
                                        !.o = call.o]]
        /\ UNCHANGED <<heap, nodes, fheap, forks, audit, decisions, clock, ret, budget, twin>>

\* a faulty add: the coordinate is not looked up before the store
ThreadCheck_unchecked ==
    \E t \in ThreadIds :
        /\ threads.th[t].pc = "check"
        /\ SetThread(t, [threads.th[t] EXCEPT !.pc = "store"])
        /\ UNCHANGED <<heap, nodes, fheap, forks, audit, decisions, clock, ret, budget, twin>>

\* add: code = node.id.code; if code in self._nodes: raise ValueError
ThreadCheck ==
    \E t \in ThreadIds :
        LET me == threads.th[t]
            code == CodeOf(World, me.o)
        IN  /\ me.pc = "check"
            /\ IF DictHas(nodes, code)
               THEN Finish(t, "add", code, "DuplicateCoordinate")
               ELSE SetThread(t, [me EXCEPT !.pc = "store"])
            /\ UNCHANGED <<heap, nodes, fheap, forks, audit, decisions, clock, ret, budget, twin>>

\* add: self._nodes[code] = node, and the call of self._audit.append("ADD", code, node.label)
ThreadStore ==
    \E t \in ThreadIds :
        LET me == threads.th[t]
            code == CodeOf(World, me.o)
        IN  /\ me.pc = "store"
            /\ nodes' = DictSet(nodes, code, me.o)
            /\ SetThread(t, [me EXCEPT !.pc = "index", !.args = <<code, heap[me.o].label>>])
            /\ UNCHANGED <<heap, fheap, forks, audit, decisions, clock, ret, budget, twin>>

\* append: index = len(self._entries)
ThreadIndex ==
    \E t \in ThreadIds :
        LET me == threads.th[t]
        IN  /\ me.pc = "index"
            /\ SetThread(t, [me EXCEPT !.pc = "time", !.index = Len(audit)])
            /\ UNCHANGED <<heap, nodes, fheap, forks, audit, decisions, clock, ret, budget, twin>>

\* append: timestamp = time.time()
ThreadTime ==
    \E t \in ThreadIds :
        LET me == threads.th[t]
        IN  /\ me.pc = "time"
            /\ SetThread(t, [me EXCEPT !.pc = "prev", !.timestamp = clock])
            /\ clock' = clock + 1
            /\ UNCHANGED <<heap, nodes, fheap, forks, audit, decisions, ret, budget, twin>>

\* append: prev_hash = self._entries[-1].hash if self._entries else GENESIS_HASH
ThreadPrev ==
    \E t \in ThreadIds :
        LET me == threads.th[t]
        IN  /\ me.pc = "prev"
            /\ SetThread(t, [me EXCEPT
                                !.pc = "append",
                                !.prev_hash = IF Len(audit) > 0 THEN audit[Len(audit)].hash
                                              ELSE GENESIS_HASH])
            /\ UNCHANGED <<heap, nodes, fheap, forks, audit, decisions, clock, ret, budget, twin>>

\* append: self._entries.append(entry), and the return of append and of add
ThreadAppend ==
    \E t \in ThreadIds :
        LET me == threads.th[t]
        IN  /\ me.pc = "append"
            /\ audit' = Append(audit, AuditLog_entry(me.index, me.timestamp, me.action,
                                                     me.args, me.prev_hash))
            /\ Finish(t, IF me.action = "ADD" THEN "add" ELSE "append",
                      IF me.action = "ADD" THEN me.args[1] ELSE <<>>, "ok")
            /\ UNCHANGED <<heap, nodes, fheap, forks, decisions, clock, ret, budget, twin>>

\* an empty Space that two callers share, with or without the exclusive lock
InitThreads ==
    \E locked \in BOOLEAN :
        /\ heap = NodePool
        /\ nodes = <<>>
        /\ fheap = <<>>
        /\ forks = <<>>
        /\ audit = <<>>
        /\ decisions = <<>>
        /\ clock = 1
        /\ ret = [op |-> "init", args |-> <<>>, err |-> "ok", res |-> <<>>]
        /\ budget = 0
        /\ twin = EmptyWorld(<<>>)
        /\ threads = [locked |-> locked, holder |-> 0,
                      th |-> [t \in ThreadIds |-> Idle(0, <<>>)]]

NextThreads ==
    \/ ThreadCall
    \/ ThreadCheck
    \/ ThreadStore
    \/ ThreadIndex
    \/ ThreadTime
    \/ ThreadPrev
    \/ ThreadAppend

SpecThreads == InitThreads /\ [][NextThreads]_vars

(***************************************************************************)
(* The functions of SemanticID and Node that touch no Space, called on      *)
(* coordinates, codes and dicts a caller builds.                            *)
(***************************************************************************)
CoordPool ==
    {MkID(m, t, u, i) : m \in {1, MaxMajor}, t \in {1, 10, MaxType}, u \in {1, MaxSubtype},
                        i \in {1, 10, 100, 1000, MaxInstance}}

C_0001 == SemanticID_code(MkID(1, 1, 1, 1))
C_0002 == SemanticID_code(MkID(1, 1, 1, 2))

RelationsPool ==
    {<<>>,
     << [k |-> "IS_A", v |-> <<C_0001>>] >>,
     << [k |-> "FORKED_FROM", v |-> <<>>] >>,
     << [k |-> "CAUSES", v |-> <<C_0002, C_0001>>], [k |-> "IS_A", v |-> <<C_0001>>] >>,
     << [k |-> "IS_A", v |-> <<C_0001>>], [k |-> "CAUSES", v |-> <<C_0001, C_0002>>] >>,
     [i \in 1..Len(RelationNames) |-> [k |-> RelationNames[i].kind, v |-> <<C_0001>>]]}

\* the Node objects that are serialised
SerialNodePool ==
    {[id |-> a, label |-> l, metadata |-> md, relations |-> rs] :
        a \in {MkID(1, 1, 1, 1), MkID(MaxMajor, MaxType, MaxSubtype, MaxInstance)},
        l \in {<<>>, L_a},
        md \in {<<>>, << <<"forked_from", C_0001>> >>},
        rs \in RelationsPool}

\* "HAS_A", the name of no relation kind
N_HAS_A == <<72, 65, 83, 95, 65>>

\* the dicts handed to from_dict: those to_dict gives, and hand-written ones
\* without the optional keys or with a relations key that names no kind
DataPool ==
    {Node_to_dict(n) : n \in SerialNodePool}
        \cup {[id |-> C_0001, label |-> L_a, metadata |-> <<>>, relations |-> <<>>],
              [id |-> C_0001, label |-> L_a, metadata |-> << <<>> >>,
               relations |-> << << [k |-> N_HAS_A, v |-> <<C_0001>>] >> >>],
              [id |-> C_0002, label |-> L_b, metadata |-> <<>>,
               relations |-> << << [k |-> RelationType_name("IS_A"), v |-> <<C_0001>>],
                                   [k |-> N_HAS_A, v |-> <<>>] >> >>]}

InitPure ==
    /\ heap = <<>>
    /\ nodes = <<>>
    /\ fheap = <<>>
    /\ forks = <<>>
    /\ audit = <<>>
    /\ decisions = <<>>
    /\ clock = 1
    /\ ret = [op |-> "init", args |-> <<>>, err |-> "ok", res |-> <<>>]
    /\ budget = 0
    /\ twin = EmptyWorld(<<>>)
    /\ threads = NoThreads

\* the Space variables, which these functions leave alone
spaceVars == <<heap, nodes, fheap, forks, audit, decisions, clock, budget, twin, threads>>

\* The functions are pure: what a call returns does not depend on the calls
\* before it, so each behaviour makes one call.
Distance ==
    \E a \in CoordPool, b \in CoordPool :
        /\ ret.op = "init"
        /\ ret' = [op |-> "distance", args |-> <<a, b>>, err |-> "ok",
                   res |-> SemanticID_distance(a, b)]
        /\ UNCHANGED spaceVars

Equal ==
    \E a \in CoordPool, b \in CoordPool :
        /\ ret.op = "init"
        /\ ret' = [op |-> "eq", args |-> <<a, b>>, err |-> "ok", res |-> SemanticID_eq(a, b)]
        /\ UNCHANGED spaceVars

ParseCode ==
    \E a \in CoordPool :
        LET r == SemanticID_parse(SemanticID_code(a))
        IN  /\ ret.op = "init"
            /\ ret' = [op |-> "parse", args |-> <<SemanticID_code(a)>>, err |-> r.err,
                       res |-> r.res]
            /\ UNCHANGED spaceVars

\* strings that are not the code of a coordinate: a code followed by a line
\* feed, by two of them, by a space, by a fifth digit; a code after a space;
\* the fields without their zeros; a code whose first digits are the
\* Arabic-Indic zero and one; a code of the major 9
TextPool ==
    {C_0001 \o <<10>>, C_0001 \o <<10, 10>>, C_0001 \o <<32>>, C_0001 \o <<49>>,
     <<32>> \o C_0001, <<49, 45, 49, 45, 49, 45, 49>>,
     <<1632, 1633>> \o SubSeq(C_0001, 3, Len(C_0001)),
     <<48, 57>> \o SubSeq(C_0001, 3, Len(C_0001))}

\* SemanticID.parse on a string written by hand
ParseText ==
    \E text \in TextPool :
        LET r == SemanticID_parse(text)
        IN  /\ ret.op = "init"
            /\ ret' = [op |-> "parse", args |-> <<text>>, err |-> r.err, res |-> r.res]
            /\ UNCHANGED spaceVars

FromDict ==
    \E data \in DataPool :
        LET r == Node_from_dict(data)
        IN  /\ ret.op = "init"
            /\ ret' = [op |-> "from_dict", args |-> <<data>>, err |-> r.err, res |-> r.res]
            /\ UNCHANGED spaceVars

NextPure ==
    \/ Distance
    \/ Equal
    \/ ParseCode
    \/ ParseText
    \/ FromDict

SpecPure == InitPure /\ [][NextPure]_vars

(***************************************************************************)
(* Properties                                                               *)
(***************************************************************************)

\* C1: after any sequence of appends and of Space and wrapper calls, whether
\* they return or raise, verify() returns true.
C1_VerifyHolds == AuditLog_verify(audit)

\* a create_fork has raised after storing a branch, and a decision has been
\* logged after that
C1_Witness ==
    /\ Len(audit) >= 2
    /\ audit[Len(audit)].action = "DECISION"
    /\ forks = <<>>
    /\ \E i \in 1..Len(nodes) : heap[nodes[i].v].metadata # <<>>
    /\ AuditLog_verify(audit)

\* C2: in a chain built by append, one stored field (action, args, timestamp,
\* prev_hash or hash) of one entry, the last one included, changed to another
\* value makes verify() return false.
C2_TamperDetected == ret.op = "tamper" => ~AuditLog_verify(audit)

\* the stored hash of the last of several entries has been changed
C2_Witness ==
    /\ ret.op = "tamper"
    /\ Len(audit) >= 2
    /\ ret.args = <<Len(audit), "hash">>
    /\ ~AuditLog_verify(audit)

\* C3: the entry at position i has index i, the first prev_hash is the genesis
\* value, and every later prev_hash is the stored hash of the entry before.
C3_ChainLinked ==
    \A i \in 1..Len(audit) :
        /\ audit[i].index = i - 1
        /\ audit[i].prev_hash = (IF i = 1 THEN GENESIS_HASH ELSE audit[i - 1].hash)

\* a chain of three entries, the last two linked to their predecessors
C3_Witness ==
    /\ Len(audit) >= 3
    /\ audit[3].prev_hash = audit[2].hash
    /\ audit[2].prev_hash # GENESIS_HASH

\* C4: the chain is append-only: a step never shortens it, keeps every entry
\* it held as it was, and adds new entries at the end only.
C4_AppendOnly ==
    [][/\ Len(audit') >= Len(audit)
       /\ SubSeq(audit', 1, Len(audit)) = audit]_vars

\* a chain that has grown by a Space call after a first entry
C4_Witness ==
    /\ Len(audit) >= 2
    /\ ret.op \in {"create_fork", "add_relation", "handle", "derive_path"}
    /\ ret.err = "ok"

\* the state a Space owns, the objects included
spaceState == <<heap, nodes, fheap, forks, audit>>

\* whether the coordinate of the Node object o is stored, before the step
Stored(o) == DictHas(nodes, SemanticID_code(heap[o].id))

\* C5: add of a node whose coordinate is already stored raises and leaves the
\* node map (the stored node, its label and relations), the fork map and the
\* chain as they were.
C5_DuplicateAddRejected ==
    [][(ret'.op = "add" /\ Stored(ret'.args[1]))
          => (ret'.err = "DuplicateCoordinate" /\ UNCHANGED spaceState)]_vars

\* another Node object with the coordinate of a stored node that has
\* relations has been refused
C5_Witness ==
    /\ ret.op = "add"
    /\ ret.err = "DuplicateCoordinate"
    /\ \E i \in 1..Len(nodes) :
          /\ nodes[i].k = SemanticID_code(heap[ret.args[1]].id)
          /\ nodes[i].v # ret.args[1]
          /\ heap[nodes[i].v].relations # <<>>

\* C6: a coordinate once stored stays stored and keeps mapping to the same
\* node, whose coordinate and label stay what they were.
C6_StoredStays ==
    [][\A i \in 1..Len(nodes) :
          /\ DictHas(nodes', nodes[i].k)
          /\ DictGet(nodes', nodes[i].k) = nodes[i].v
          /\ heap'[nodes[i].v].id = heap[nodes[i].v].id
          /\ heap'[nodes[i].v].label = heap[nodes[i].v].label]_vars

\* a fork has added branches next to a node stored before
C6_Witness ==
    /\ ret.op = "create_fork"
    /\ ret.err = "ok"
    /\ Len(ret.res.branches) >= 1
    /\ Len(nodes) >= 2

\* C7: add_relation raises when the coordinate of source or of target is not
\* stored, and then no relation changes and nothing is logged.
C7_RelationNeedsBoth ==
    [][(ret'.op = "add_relation" /\ (~Stored(ret'.args[1]) \/ ~Stored(ret'.args[3])))
          => (ret'.err = "UnknownNode" /\ UNCHANGED spaceState)]_vars

\* a relation from a stored source to a target that is not stored has been refused
C7_Witness ==
    /\ ret.op = "add_relation"
    /\ ret.err = "UnknownNode"
    /\ Stored(ret.args[1])
    /\ ~Stored(ret.args[3])

\* the instances stored with the major, type and subtype of id
InstancesSharing(id) ==
    {heap[nodes[i].v].id.instance :
        i \in {j \in 1..Len(nodes) : shares_subtype(heap[nodes[j].v].id, id)}}

\* the largest of them
LargestSharing(id) == CHOOSE m \in InstancesSharing(id) : \A x \in InstancesSharing(id) : x <= m

\* what C8 says of a step create_fork(source, labels), source stored before it
ForkedAsClaimed(source, labels) ==
    LET k == Len(labels)
        src == heap[source]
        max == LargestSharing(src.id)
    IN  /\ ret'.err = "ok"
        /\ Len(nodes') = Len(nodes) + k
        /\ Len(ret'.res.branches) = k
        /\ \A i \in 1..k :
              LET b == ret'.res.branches[i]
                  code == SemanticID_code(heap'[b].id)
              IN  /\ heap'[b].id = MkID(src.id.major, src.id.type_, src.id.subtype, max + i)
                  /\ ~DictHas(nodes, code)
                  /\ DictHas(nodes', code)
                  /\ DictGet(nodes', code) = b
                  /\ heap'[b].label = src.label \o COLON \o labels[i]
                  /\ Node_get_relations(heap'[b], "FORKED_FROM") = <<SemanticID_code(src.id)>>
                  /\ fheap'[ret'.res.fork].branches[i] = heap'[b].id
        /\ Fork_branch_count(fheap'[ret'.res.fork]) = k

\* C8 as stated: for a stored source and any k labels, create_fork adds exactly k
\* nodes at the instances max+1..max+k of the source's major, type and subtype,
\* labelled "<source label>:<label>", each with FORKED_FROM back to the source,
\* and returns a Fork of k branches in label order.
C8_AsStated ==
    [][(ret'.op = "create_fork" /\ Stored(ret'.args[1]))
          => ForkedAsClaimed(ret'.args[1], ret'.args[2])]_vars

\* C8, amended: the same, when max + k does not exceed the largest instance 9999.
C8_ForkAllocates ==
    [][(/\ ret'.op = "create_fork"
        /\ Stored(ret'.args[1])
        /\ LargestSharing(heap[ret'.args[1]].id) + Len(ret'.args[2]) <= MaxInstance)
          => ForkedAsClaimed(ret'.args[1], ret'.args[2])]_vars

\* two branches made for a source that is not the node with the largest
\* instance of its subtype
C8_Witness ==
    /\ ret.op = "create_fork"
    /\ ret.err = "ok"
    /\ Len(ret.res.branches) = 2
    /\ heap[ret.res.branches[1]].id.instance > heap[ret.args[1]].id.instance + 1

\* whether resolved_to of a Fork is None or one of its branches
ResolvedIsBranch(fork) ==
    fork.resolved_to = <<>> \/ InBranches(fork.resolved_to[1], fork.branches)

\* C9: resolved_to of every Fork is unset or one of its branches, whatever
\* resolve and add_branch calls were made; resolve with an argument that is not
\* a branch raises and leaves resolved_to and branches as they were.
C9_ResolvedToBranch ==
    /\ [](\A f \in 1..Len(fheap) : ResolvedIsBranch(fheap[f]))
    /\ [][(ret'.op = "resolve"
             /\ ~InBranches(ret'.args[2], fheap[ret'.args[1]].branches))
            => (ret'.err = "NotABranch" /\ fheap' = fheap)]_vars

\* a resolve has been refused on a Fork that is resolved and has a branch
\* added by add_branch
C9_Witness ==
    /\ ret.op = "resolve"
    /\ ret.err = "NotABranch"
    /\ Fork_is_resolved(fheap[ret.args[1]])
    /\ \E i \in 1..Len(fheap[ret.args[1]].branches) :
          fheap[ret.args[1]].branches[i] \in PoolIDs

\* the branch count of the Fork registered for the coordinate of o, 0 if none
BranchesOf(o) ==
    LET code == SemanticID_code(heap[o].id)
        at == {i \in 1..Len(forks) : forks[i].k = code}
    IN  IF at = {} THEN 0 ELSE Len(fheap[forks[CHOOSE i \in at : TRUE].v].branches)

HasFork(o) == \E i \in 1..Len(forks) : forks[i].k = SemanticID_code(heap[o].id)

\* the number of relations of the Node object o
RelationsOf(o) ==
    LET rels == heap[o].relations
        pairs == UNION {{<<i, j>> : j \in 1..Len(rels[i].v)} : i \in 1..Len(rels)}
    IN  Cardinality(pairs)

\* derive_tension(o) returns (b+1)/(r+1)
TensionIsQuotient(o) ==
    /\ ret'.err = "ok"
    /\ ret'.res.num * (RelationsOf(o) + 1) = (BranchesOf(o) + 1) * ret'.res.den
    /\ ret'.res.den > 0

\* C10 as stated: derive_tension is (b+1)/(r+1); it is 1 for a node with no fork
\* and no relations, and greater than 1 once create_fork has been called on such
\* a node and no relation was added to it.
C10_AsStated ==
    [][ret'.op = "derive_tension"
          => LET o == ret'.args[1]
             IN  /\ TensionIsQuotient(o)
                 /\ (~HasFork(o) /\ RelationsOf(o) = 0) => ret'.res.num = ret'.res.den
                 /\ (HasFork(o) /\ RelationsOf(o) = 0) => ret'.res.num > ret'.res.den]_vars

\* C10, amended: greater than 1 once create_fork has been called on such a
\* node with at least one branch label.
C10_Tension ==
    [][ret'.op = "derive_tension"
          => LET o == ret'.args[1]
             IN  /\ TensionIsQuotient(o)
                 /\ (~HasFork(o) /\ RelationsOf(o) = 0) => ret'.res.num = ret'.res.den
                 /\ (HasFork(o) /\ BranchesOf(o) >= 1 /\ RelationsOf(o) = 0)
                       => ret'.res.num > ret'.res.den]_vars

\* the tension of a node without relations, forked into two branches, has
\* been asked for
C10_Witness ==
    /\ ret.op = "derive_tension"
    /\ ret.res.num = 3
    /\ ret.res.den = 1
    /\ Len(forks) = 1

(***************************************************************************)
(* derive_path                                                              *)
(***************************************************************************)
\* the relation targets of the object, in the order derive_path tries them
TargetsOf(o) == FlattenTargets(heap[o].relations)

\* the object holds an explicit relation, of some kind, to the coordinate
HoldsRelationTo(s, e) == InSeq(SemanticID_code(heap[e].id), TargetsOf(s))

\* the first relation target of the object that is not its own coordinate
FirstOtherTarget(s) ==
    LET others == SelectSeq(TargetsOf(s), LAMBDA c : c # SemanticID_code(heap[s].id))
    IN  IF Len(others) = 0 THEN <<>> ELSE <<others[1]>>

\* C11, as stated: whenever start holds an explicit relation to end's
\* coordinate, derive_path(start, end) returns [start, end].
C11_AsStated ==
    ret.op = "derive_path" /\ HoldsRelationTo(ret.args[1], ret.args[2])
        => ret.res = << <<ret.args[1], ret.args[2]>> >>

\* C11, amended: whenever start and end have different coordinates and start
\* holds an explicit relation to end's coordinate, derive_path(start, end)
\* returns a path that begins with start and ends at end's coordinate; the
\* path is [start, end] when end's coordinate is the first of start's
\* relation targets, in iteration order, that is not start's own coordinate.
C11_DirectRelation ==
    ret.op = "derive_path"
        => LET s == ret.args[1]
               e == ret.args[2]
           IN  SemanticID_code(heap[s].id) # SemanticID_code(heap[e].id) /\ HoldsRelationTo(s, e)
                   => /\ ret.res # <<>>
                      /\ ret.res[1][1] = s
                      /\ LET last == ret.res[1][Len(ret.res[1])]
                         IN  last # VIA_SIBLING
                             /\ SemanticID_code(heap[last].id) = SemanticID_code(heap[e].id)
                      /\ FirstOtherTarget(s) = <<SemanticID_code(heap[e].id)>>
                             => ret.res = << <<s, e>> >>

\* start holds relations of two kinds, and the direct one to end is found
C11_Witness ==
    /\ ret.op = "derive_path"
    /\ HoldsRelationTo(ret.args[1], ret.args[2])
    /\ Len(heap[ret.args[1]].relations) = 2
    /\ ret.res = << <<ret.args[1], ret.args[2]>> >>

(***************************************************************************)
(* What the chain records                                                   *)
(***************************************************************************)
\* the methods of Space that the claims on the audit trail are about
SpaceOps ==
    {"add", "add_relation", "create_fork", "derive_siblings", "derive_cousins",
     "derive_category", "derive_path", "derive_tension", "derive_neighbors"}

\* the action name the entries of a method carry
ActionOf(op) ==
    IF op = "add" THEN "ADD"
    ELSE IF op = "add_relation" THEN "RELATE"
    ELSE IF op = "create_fork" THEN "FORK"
    ELSE "DERIVE"

\* C12, as stated: every Space operation that returns successfully appends at
\* least one entry to the chain, under the action name of the operation
\* (ADD, RELATE, FORK, DERIVE), derive_path with start equal to end included.
C12_AsStated ==
    [][ret'.op \in SpaceOps /\ ret'.err = "ok"
          => /\ Len(audit') > Len(audit)
             /\ audit'[Len(audit')].action = ActionOf(ret'.op)]_vars

\* the codes the ADD entries of the chain record
AddedCodes == {audit[i].args[1] : i \in {j \in 1..Len(audit) : audit[j].action = "ADD"}}

\* the branch codes the FORK entries of the chain record
ForkedCodes ==
    UNION {{audit[i].args[2][k] : k \in 1..Len(audit[i].args[2])} :
              i \in {j \in 1..Len(audit) : audit[j].action = "FORK"}}

\* C13, as stated: after any sequence of Space operations, successful or
\* failed, the set of stored coordinates equals the set of codes recorded in
\* ADD entries together with the branch codes recorded in FORK entries.
C13_AsStated == DictKeys(nodes) = AddedCodes \cup ForkedCodes

(***************************************************************************)
(* Coordinates and serialisation                                            *)
(***************************************************************************)
\* the distance the rules give, first match first
RuleDistance(a, b) ==
    IF SemanticID_code(a) = SemanticID_code(b) THEN 0
    ELSE IF a.major = b.major /\ a.type_ = b.type_ /\ a.subtype = b.subtype THEN 1
    ELSE IF a.major = b.major /\ a.type_ = b.type_ THEN 2
    ELSE IF a.major = b.major THEN 3
    ELSE 4

\* C14: for valid coordinates a and b, a.distance(b) is 0 for the same code,
\* else 1 for the same major, type and subtype, else 2 for the same major and
\* type, else 3 for the same major, else 4; it is symmetric, and 0 from a
\* coordinate to itself.
C14_Distance ==
    ret.op = "distance"
        => /\ ret.res = RuleDistance(ret.args[1], ret.args[2])
           /\ ret.res = SemanticID_distance(ret.args[2], ret.args[1])
           /\ SemanticID_distance(ret.args[1], ret.args[1]) = 0

\* two coordinates of different categories and the same type and subtype
C14_Witness ==
    /\ ret.op = "distance"
    /\ ret.args[1].major # ret.args[2].major
    /\ ret.args[1].type_ = ret.args[2].type_
    /\ ret.args[1].subtype = ret.args[2].subtype
    /\ ret.res = 4

\* C15: for every coordinate in range, parse(coordinate.code) succeeds and
\* equals the coordinate; two valid coordinates are equal exactly when all
\* four fields are equal.
C15_ParseRoundTrip ==
    /\ ret.op = "parse"
           => \A a \in CoordPool :
                  SemanticID_code(a) = ret.args[1]
                      => ret.err = "ok" /\ ret.res = a /\ SemanticID_eq(ret.res, a)
    /\ ret.op = "eq" => (ret.res <=> ret.args[1] = ret.args[2])

\* the code of the largest coordinate has been parsed
C15_Witness ==
    /\ ret.op = "parse"
    /\ ret.err = "ok"
    /\ ret.args[1] = SemanticID_code(MkID(MaxMajor, MaxType, MaxSubtype, MaxInstance))
    /\ ret.res.instance = MaxInstance

\* the dict has a relations key that is not the name of a relation kind
HasUnknownKind(data) ==
    \E i \in 1..Len(CtxGet(data.relations, <<>>)) :
        \A kind \in RelationTypes : RelationType_name(kind) # CtxGet(data.relations, <<>>)[i].k

\* C16: Node.from_dict(n.to_dict()) has the id, label, metadata and relations
\* of n, kinds and targets in the same order, and from_dict fails on a
\* relations key that is not the name of a relation kind.
C16_NodeRoundTrip ==
    ret.op = "from_dict"
        => /\ \A n \in SerialNodePool :
                  Node_to_dict(n) = ret.args[1]
                      => /\ ret.err = "ok"
                         /\ SemanticID_eq(ret.res.id, n.id)
                         /\ ret.res.label = n.label
                         /\ ret.res.metadata = n.metadata
                         /\ ret.res.relations = n.relations
           /\ HasUnknownKind(ret.args[1]) => ret.err = "KeyError"

\* a node with relations of two kinds, CAUSES first, has come back
C16_Witness ==
    /\ ret.op = "from_dict"
    /\ ret.err = "ok"
    /\ Len(ret.res.relations) = 2
    /\ ret.res.relations[1].k = "CAUSES"
    /\ Len(ret.res.relations[1].v) = 2
    /\ \E n \in SerialNodePool : Node_to_dict(n) = ret.args[1]

(***************************************************************************)
(* The wrapper                                                              *)
(***************************************************************************)
\* the stored nodes whose label is the string, case and the blanks around the
\* string aside: the entries of _nodes, by position
MatchingStored(str) ==
    {i \in 1..Len(nodes) : Lower(heap[nodes[i].v].label) = Lower(Strip(str))}

\* C17: propose_strategy returns ESCALATE for every non-string input, and for
\* a string CREATE_NODE when no stored node's label matches it (case and
\* surrounding blanks of the input aside), RETURN_EXISTING when exactly one
\* matches and CREATE_FORK when more than one matches; it returns no other
\* strategy and changes no node, relation or fork.
C17_Propose ==
    /\ [](ret.op = "propose_strategy"
             => /\ ~ret.args[1].isStr => ret.res = "ESCALATE"
                /\ ret.args[1].isStr /\ Cardinality(MatchingStored(ret.args[1].s)) = 0
                       => ret.res = "CREATE_NODE"
                /\ ret.args[1].isStr /\ Cardinality(MatchingStored(ret.args[1].s)) = 1
                       => ret.res = "RETURN_EXISTING"
                /\ ret.args[1].isStr /\ Cardinality(MatchingStored(ret.args[1].s)) > 1
                       => ret.res = "CREATE_FORK"
                /\ ret.res \in {"ESCALATE", "CREATE_NODE", "RETURN_EXISTING", "CREATE_FORK"})
    /\ [][ret'.op = "propose_strategy" => UNCHANGED <<heap, nodes, fheap, forks>>]_vars

\* a string with a blank in front has been matched by two stored labels that
\* differ in case
C17_Witness ==
    /\ ret.op = "propose_strategy"
    /\ ret.args[1] = StrInput(L_sp_a)
    /\ Cardinality(MatchingStored(L_sp_a)) = 2
    /\ ret.res = "CREATE_FORK"

\* C18, as stated: for every string input s, blanks around it included, if
\* handle(s, ctx) selects CREATE_NODE and succeeds, then an immediately
\* following handle(s) selects RETURN_EXISTING and its result is a list
\* containing exactly the node the first call created.
C18_AsStated ==
    [][/\ ret.op = "handle" /\ ret.err = "ok" /\ ret.args[1].isStr
       /\ ret.res.strategy = "CREATE_NODE"
       /\ ret'.op = "handle" /\ ret'.args = <<ret.args[1], EmptyContext>>
       => /\ ret'.err = "ok"
          /\ ret'.res.strategy = "RETURN_EXISTING"
          /\ ret'.res.result = <<ret.res.result>>]_vars

\* the chain entries that record a decision, in order
DecisionEntries == SelectSeq(audit, LAMBDA en : en.action = "DECISION")

\* C19: after any sequence of handle calls, the retained Decisions are as
\* many as the DECISION entries of the chain, the i-th Decision carries the
\* hash of the i-th DECISION entry, and that entry was the last of the chain
\* when the call returned; a handle call that raises adds neither a Decision
\* nor a DECISION entry.
C19_DecisionsLogged ==
    /\ [](/\ Len(decisions) = Len(DecisionEntries)
          /\ \A i \in 1..Len(decisions) : decisions[i].audit_hash = DecisionEntries[i].hash)
    /\ [][ret'.op = "handle"
             => IF ret'.err = "ok"
                THEN /\ Len(decisions') = Len(decisions) + 1
                     /\ audit'[Len(audit')].action = "DECISION"
                     /\ decisions'[Len(decisions')].audit_hash = audit'[Len(audit')].hash
                     /\ ret'.res = decisions'[Len(decisions')]
                ELSE /\ decisions' = decisions
                     /\ DecisionEntries' = DecisionEntries]_vars

\* a handle call has raised after it stored a fork branch, on a wrapper that
\* has retained a decision
C19_Witness ==
    /\ ret.op = "handle"
    /\ ret.err = "RangeError"
    /\ Len(nodes) = 3
    /\ Len(decisions) = 1
    /\ Len(DecisionEntries) = 1

\* the stored nodes of a Space, in the order of _nodes: code and Node value
StoredNodes(w) ==
    [i \in 1..Len(w.nodes) |-> [code |-> w.nodes[i].k, node |-> w.heap[w.nodes[i].v]]]

\* the forks of a Space, in the order of _forks, creation time aside
StoredForks(w) ==
    [i \in 1..Len(w.forks) |->
        [code |-> w.forks[i].k,
         source_id |-> w.fheap[w.forks[i].v].source_id,
         branches |-> w.fheap[w.forks[i].v].branches,
         resolved_to |-> w.fheap[w.forks[i].v].resolved_to]]

Members(seq) == {seq[i] : i \in 1..Len(seq)}

\* the two Spaces hold the same nodes, relations and forks
SameContent(w1, w2) ==
    /\ Members(StoredNodes(w1)) = Members(StoredNodes(w2))
    /\ Members(StoredForks(w1)) = Members(StoredForks(w2))

\* the two Spaces hold the same nodes, relations and forks, in the same order
SameOrder(w1, w2) ==
    /\ StoredNodes(w1) = StoredNodes(w2)
    /\ StoredForks(w1) = StoredForks(w2)

\* C20, as stated: run on two Spaces holding the same nodes, relations and
\* forks with the same arguments, apply_strategy gives the same outcome (same
\* error, or same coordinates and labels of what it created) and leaves both
\* Spaces with the same nodes, relations and forks.
C20_AsStated ==
    [][ret'.op = "apply_strategy" /\ SameContent(World, twin)
          => /\ ret'.res.first = ret'.res.second
             /\ SameContent(World', twin')]_vars

\* C20, amended: run on two Spaces holding the same nodes, relations and
\* forks, stored in the same order, with the same arguments, apply_strategy
\* gives the same outcome and leaves both Spaces with the same nodes,
\* relations and forks in the same order, whatever their chains and clocks.
C20_Deterministic ==
    [][ret'.op = "apply_strategy" /\ SameOrder(World, twin)
          => /\ ret'.res.first = ret'.res.second
             /\ SameOrder(World', twin')]_vars

\* both Spaces hold the same nodes in the same order, their chains differ,
\* and CREATE_FORK has created the same branches in both
C20_Witness ==
    /\ ret.op = "apply_strategy"
    /\ ret.args[1] = "CREATE_FORK"
    /\ ret.err = "ok"
    /\ ret.res.first = ret.res.second
    /\ Len(ret.res.first.created) > 0
    /\ audit # twin.audit
    /\ SameOrder(World, twin)

\* the add calls for a coordinate that have returned or raised, and those that returned
DoneAdds(code) ==
    {c \in {<<t, i>> : t \in ThreadIds, i \in 1..MaxThreadCalls} :
        /\ c[2] <= Len(threads.th[c[1]].results)
        /\ threads.th[c[1]].results[c[2]].op = "add"
        /\ threads.th[c[1]].results[c[2]].code = code}

OkAdds(code) == {c \in DoneAdds(code) : threads.th[c[1]].results[c[2]].err = "ok"}

\* the ADD entries of the chain for a coordinate
AddEntries(code) ==
    {i \in 1..Len(audit) : audit[i].action = "ADD" /\ audit[i].args[1] = code}

\* the entries carry the indexes 0, 1, 2, ... in the order of the chain
Sequential(entries) == \A i \in 1..Len(entries) : entries[i].index = i - 1

\* two entries of the chain carry the same index and the same prev_hash
TwinEntries ==
    \E i, j \in 1..Len(audit) :
        i < j /\ audit[i].index = audit[j].index /\ audit[i].prev_hash = audit[j].prev_hash

AllIdle == \A t \in ThreadIds : threads.th[t].pc = "idle"

PoolCodes == {CodeOf(World, o) : o \in Objects}

\* C21: under one exclusive lock around each call, of the add calls for one
\* coordinate exactly one succeeds and the chain stays sequential and
\* verifiable, in every interleaving; with no lock, the adds for one
\* coordinate that interleave between the lookup and the store all succeed
\* on one stored node with one ADD entry each, and two appends that read the
\* same index and prev_hash leave a chain that verify() rejects
C21_CheckThenAct ==
    /\ threads.locked =>
          /\ AuditLog_verify(audit)
          /\ Sequential(audit)
          /\ \A code \in PoolCodes :
                /\ Cardinality(OkAdds(code)) <= 1
                /\ DoneAdds(code) # {} => Cardinality(OkAdds(code)) = 1
    /\ ~threads.locked =>
          /\ TwinEntries => ~AuditLog_verify(audit)
          /\ \A code \in PoolCodes :
                AllIdle /\ OkAdds(code) # {} =>
                    /\ Cardinality({i \in 1..Len(nodes) : nodes[i].k = code}) = 1
                    /\ Cardinality(AddEntries(code)) = Cardinality(OkAdds(code))

\* with no lock, both callers have added the coordinate 01-01-01-0001 with
\* success: one node is stored, the chain holds two ADD entries of index 0
\* that follow the genesis value, and verify() fails
C21_Witness ==
    /\ ~threads.locked
    /\ AllIdle
    /\ Cardinality(OkAdds(C_0001)) = 2
    /\ Len(nodes) = 1
    /\ Len(audit) = 2
    /\ audit[1].action = "ADD" /\ audit[2].action = "ADD"
    /\ audit[1].index = 0 /\ audit[2].index = 0
    /\ audit[1].prev_hash = GENESIS_HASH /\ audit[2].prev_hash = GENESIS_HASH
    /\ ~AuditLog_verify(audit)

\* the final k entries of a chain, in the order of the chain
FinalEntries(entries, k) == SubSeq(entries, Len(entries) - k + 1, Len(entries))

\* C22, as stated: for every n >= 0, last(n) returns the final min(n, L)
\* entries of a chain of length L, in the order of the chain, and leaves the
\* chain as it was
C22_AsStated ==
    /\ [](ret.op = "last" => ret.res = FinalEntries(audit, Min2(ret.args[1], Len(audit))))
    /\ [][ret'.op = "last" => audit' = audit]_vars

\* what C23 says of a step create_fork(source, labels) on a source whose
\* coordinate has a Fork registered: the Fork is replaced
ForkReplaced(source) ==
    LET code == SemanticID_code(heap[source].id)
        old == fheap[DictGet(forks, code)]
        new == fheap'[DictGet(forks', code)]
        made == ret'.res.branches
    IN  /\ Len(forks') = Len(forks)
        /\ DictGet(forks', code) = ret'.res.fork
        /\ new.branches = [i \in 1..Len(made) |-> heap'[made[i]].id]
        /\ \A i \in 1..Len(made) : ~DictHas(nodes, SemanticID_code(heap'[made[i]].id))
        /\ new.resolved_to = <<>>
        /\ \A i \in 1..Len(old.branches) :
              /\ DictHas(nodes', SemanticID_code(old.branches[i]))
              /\ DictGet(nodes', SemanticID_code(old.branches[i]))
                    = DictGet(nodes, SemanticID_code(old.branches[i]))

\* C23, as stated: create_fork on a source that already has a registered Fork
\* succeeds without error and replaces that Fork: fork_count is unchanged,
\* get_fork gives a Fork of the newly created coordinates only, unresolved,
\* and the branch nodes of the earlier Fork remain stored
C23_AsStated ==
    [][(ret'.op = "create_fork" /\ HasFork(ret'.args[1]))
          => (ret'.err = "ok" /\ ForkReplaced(ret'.args[1]))]_vars

\* C23, amended: the same, when the new branches fit below the largest
\* instance 9999
C23_ForkReplaced ==
    [][(/\ ret'.op = "create_fork"
        /\ HasFork(ret'.args[1])
        /\ LargestSharing(heap[ret'.args[1]].id) + Len(ret'.args[2]) <= MaxInstance)
          => (ret'.err = "ok" /\ ForkReplaced(ret'.args[1]))]_vars

\* a source whose Fork of two branches was resolved has been forked again
\* into one branch: one Fork is registered, the new one, and all three
\* branch nodes are stored
C23_Witness ==
    /\ ret.op = "create_fork"
    /\ ret.err = "ok"
    /\ Len(fheap) = 2
    /\ Len(forks) = 1
    /\ Len(fheap[1].branches) = 2
    /\ fheap[1].resolved_to # <<>>
    /\ forks[1].v = 2
    /\ Len(fheap[2].branches) = 1
    /\ fheap[2].resolved_to = <<>>
    /\ Len(nodes) = 4

(***************************************************************************)
(* Paths over relations of any shape                                        *)
(***************************************************************************)
\* the object is the node stored at its coordinate
IsStoredNode(o) ==
    /\ DictHas(nodes, SemanticID_code(heap[o].id))
    /\ DictGet(nodes, SemanticID_code(heap[o].id)) = o

\* the step of the path that leaves its i-th member is justified
JustifiedStep(path, i) ==
    IF path[i] = VIA_SIBLING THEN path[i + 1] # VIA_SIBLING
    ELSE IF path[i + 1] # VIA_SIBLING
    THEN InSeq(SemanticID_code(heap[path[i + 1]].id), TargetsOf(path[i]))
    ELSE /\ i + 2 <= Len(path)
         /\ path[i + 2] # VIA_SIBLING
         /\ IsStoredNode(path[i + 2])
         /\ SemanticID_code(heap[path[i + 2]].id) # SemanticID_code(heap[path[i]].id)
         /\ shares_type(heap[path[i + 2]].id, heap[path[i]].id)

\* C24: every path derive_path returns begins with start and ends with end
\* (a node of end's coordinate, which is what Node.__eq__ compares), and each
\* step is justified: a node directly followed by a node holds an explicit
\* relation to that node's coordinate, and a node followed by the
\* "(via sibling)" marker is followed next by a different stored node of its
\* major and type
C24_PathJustified ==
    ret.op = "derive_path" /\ ret.res.found
        => LET path == ret.res.path
           IN  /\ Len(path) >= 1
               /\ path[1] = ret.args[1]
               /\ path[Len(path)] # VIA_SIBLING
               /\ SemanticID_eq(heap[path[Len(path)]].id, heap[ret.args[2]].id)
               /\ \A i \in 1..(Len(path) - 1) : JustifiedStep(path, i)

\* a path of an explicit step and a sibling detour: the start holds a
\* relation to a stored node whose sibling is the end
C24_Witness ==
    /\ ret.op = "derive_path"
    /\ ret.res.found
    /\ Len(ret.res.path) = 4
    /\ ret.res.path[2] # VIA_SIBLING
    /\ ret.res.path[3] = VIA_SIBLING
    /\ ret.res.path[4] = ret.args[2]

\* the coordinates that occur more than once in the sequence
Repeated(seq) == {seq[i] : i \in {j \in 1..Len(seq) : \E k \in 1..Len(seq) : k # j /\ seq[k] = seq[j]}}

\* C25: derive_path called with a fresh visited set terminates on every
\* Space, with cycles, self-loops and dangling relation targets: it expands
\* no coordinate twice, so it makes at most one expansion for each stored
\* node beside that of the start
C25_ExpandsOnce ==
    ret.op = "derive_path"
        => /\ Repeated(ret.res.expanded) = {}
           /\ Len(ret.res.expanded) <= Len(nodes) + 1
           /\ \A i \in 2..Len(ret.res.expanded) : DictHas(nodes, ret.res.expanded[i])

\* no path is found from a start that holds a relation to itself and lies on
\* a cycle with another stored node: both have been expanded, once each
C25_Witness ==
    /\ ret.op = "derive_path"
    /\ ~ret.res.found
    /\ HoldsRelationTo(ret.args[1], ret.args[1])
    /\ \E t \in Objects :
          /\ SemanticID_code(heap[t].id) # SemanticID_code(heap[ret.args[1]].id)
          /\ IsStoredNode(t)
          /\ HoldsRelationTo(ret.args[1], t)
          /\ HoldsRelationTo(t, ret.args[1])
          /\ InSeq(SemanticID_code(heap[t].id), ret.res.expanded)
    /\ ret.res.expanded[1] = SemanticID_code(heap[ret.args[1]].id)

\* the coordinates reachable from the object by explicit relations, each
\* step but the last one leading to a stored node whose relations are followed
RECURSIVE ReachableCodes(_, _)
ReachableCodes(frontier, seen) ==
    LET next == {c \in UNION {Members(TargetsOf(o)) : o \in frontier} : c \notin seen}
    IN  IF next = {} THEN seen
        ELSE ReachableCodes({DictGet(nodes, c) : c \in {d \in next : DictHas(nodes, d)}},
                            seen \cup next)

ReachableFrom(s) == ReachableCodes({s}, {})

\* C28, as stated: if end can be reached from start by following explicit
\* relations through stored nodes, derive_path(start, end) with a fresh
\* visited set returns a path
C28_AsStated ==
    ret.op = "derive_path" /\ SemanticID_code(heap[ret.args[2]].id) \in ReachableFrom(ret.args[1])
        => ret.res.found

(***************************************************************************)
(* CREATE_NODE                                                              *)
(***************************************************************************)
\* the coordinate of the context with the given instance
ContextID(context, instance) ==
    MkID(CtxGet(context.major, 8), CtxGet(context.type, 1), CtxGet(context.subtype, 1), instance)

\* one more than the largest instance stored under the context's major, type
\* and subtype, or 1 when there is none
NextFree(context) ==
    LET sharing == InstancesSharing(ContextID(context, 1))
    IN  IF sharing = {} THEN 1 ELSE LargestSharing(ContextID(context, 1)) + 1

\* what C26 says of a step apply_strategy(CREATE_NODE, input, context)
NodeCreatedAtNextFree(input, context) ==
    LET code == SemanticID_code(ContextID(context, NextFree(context)))
    IN  /\ ret'.res.first = [err |-> "ok", created |-> <<[code |-> code, label |-> input.s]>>]
        /\ ~DictHas(nodes, code)
        /\ DictHas(nodes', code)
        /\ Len(nodes') = Len(nodes) + 1

StoredTargets(o, kind) ==
    Node_get_relations(heap[DictGet(nodes, SemanticID_code(heap[o].id))], kind)

\* how often the value occurs in the sequence
Occurrences(x, seq) == Cardinality({i \in 1..Len(seq) : seq[i] = x})

\* C27, as stated: after a successful add_relation(source, kind, target), for
\* any Node value passed as source whose coordinate is stored, the node
\* stored at source's coordinate lists target's coordinate under kind exactly
\* once, and repeating the call leaves that list unchanged
C27_AsStated ==
    /\ [](ret.op = "add_relation" /\ ret.err = "ok"
            => Occurrences(SemanticID_code(heap[ret.args[3]].id),
                           StoredTargets(ret.args[1], ret.args[2])) = 1)
    /\ [][(ret.op = "add_relation" /\ ret.err = "ok" /\ ret' = ret)
            => StoredTargets(ret.args[1], ret.args[2])' = StoredTargets(ret.args[1], ret.args[2])]_vars

(***************************************************************************)
(* create_fork that raises                                                  *)
(***************************************************************************)
\* C29, as stated: whenever create_fork raises, because the source is not
\* stored or because a branch instance would exceed 9999, the node map, the
\* fork map and the audit chain are the same as before the call
C29_AsStated ==
    [][ret'.op = "create_fork" /\ ret'.err # "ok"
          => /\ nodes' = nodes
             /\ forks' = forks
             /\ audit' = audit]_vars

(***************************************************************************)
(* parse and the canonical form                                             *)
(***************************************************************************)
\* C30, as stated: for every string s on which parse(s) succeeds,
\* parse(s).code == s, so no string other than the 13-character zero-padded
\* form of a valid coordinate is accepted
C30_AsStated ==
    ret.op = "parse" /\ ret.err = "ok"
        => /\ SemanticID_code(ret.res) = ret.args[1]
           /\ Len(ret.args[1]) = 13

====
